---- MODULE Spec2Model ----
(***************************************************************************)
(* teflib: the Trace singleton (event buffer, sink registration, drain),   *)
(* the Consumer life cycle and the Trace_to_file sink, as a state machine  *)
(* of threads that interleave at every lock acquisition and at every       *)
(* unlocked access to shared state.                                        *)
(*                                                                         *)
(*   Trace            src/src/singleton.h 1111-1269, src/unnamed/part_003  *)
(*   Consumer         src/unnamed/part_002 184-234                         *)
(*   Trace_to_file    src/src/consumer.cpp 24-61                           *)
(***************************************************************************)
EXTENDS Integers, Sequences, FiniteSets, TLC

(***************************************************************************)
(* Bounds of the model.                                                    *)
(***************************************************************************)
\* SpecSeq, one thread making every call: events appended to the buffer,
\* length of _consumers, sleeps of the application
SeqMaxEvents == 2
SeqMaxRegistered == 2
SeqMaxSleeps == 1
\* Spec, a producer beside the main loop and a control thread: events and
\* meta-events appended, length of _consumers
MaxEvents == 1
MaxMeta == 1
MaxRegistered == 1
\* SpecRun, two producers beside the main loop: events appended, length of
\* _consumers, sleeps
RunMaxEvents == 2
RunMaxRegistered == 1
RunMaxSleeps == 1
\* SpecScope, one thread with nested Context objects: events appended,
\* depth of the nesting
ScopeMaxEvents == 3
ScopeMaxDepth == 2
\* SpecFile, one thread tracing to two files: events and meta-events
\* appended
FileMaxEvents == 2
FileMaxMeta == 2
\* SpecPhase, one thread recording events of every kind: events appended
PhaseMaxEvents == 2
\* SpecThrow, one thread with a sink whose consume_events throws: events
\* appended
ThrowMaxEvents == 1
DropMaxEvents == 2
PairMaxEvents == 2
EmptyMaxEvents == 2
MacroMaxEvents == 2
MacroMaxSleeps == 1
RestartMaxSleeps == 2
ClockMaxEvents == 2
DropMaxRegistered == 1
SetMaxEvents == 1
DrainMaxEvents == 3
ArgsMaxEvents == 2
LiveMaxEvents == 2
LiveMaxSleeps == 1
ArgsMaxDepth == 2
ArgsMaxArgs == 2
SetMaxRegistered == 2
RemoveMaxEvents == 1
RemoveMaxRegistered == 3

(***************************************************************************)
(* Program constants.                                                      *)
(***************************************************************************)
MSEC_PER_SECOND == 1000
MAX_TRACE_CONSUMER_LIFETIME == 10 * MSEC_PER_SECOND
\* uint64_t(-1); no registered sink ever compares against it, because
\* add_consumer overwrites _expiry before the sink is pushed.  The model's
\* integers are 32 bits wide, so the value stands for "later than any clock".
DISTANT_FUTURE == 2147483647
\* the lifetime and the sleep of the 50 ms scenario, and a lifetime above the cap
ShortLifetime == 50
LongLifetime == 20000
SleepMsec == 60
\* get_now_msec() is milliseconds since the epoch: far above any lifetime
StartMsec == 1000000

\* threads: the main loop (advance_consumers, shutdown), a control thread
\* (add_consumer, remove_consumer, early stop), and the producers
Main == "main"
Ctl == "ctl"
Producers == {"p1", "p2"}
Threads == {Main, Ctl} \cup Producers
NoThread == "none"

\* sinks (Consumer*); NULL is the null pointer
Sinks == {"c1", "c2"}
NULL == "null"
NoMacro == "none"
\* the lifetime each sink is constructed with
SinkLifetime(c) == IF c = "c1" THEN ShortLifetime ELSE LongLifetime

\* string ids used by the recording calls
CTX_0 == 0
CTX_1 == 1
CAT_0 == 10
CAT_1 == 11
COUNT_0 == 20
DATUM_0 == 30

VARIABLES
    enabled,         \* Trace::_enabled
    consumers,       \* Trace::_consumers
    events,          \* Trace::_events
    arg_lists,       \* Trace::_arg_lists
    meta_events,     \* Trace::_meta_events
    last_t,          \* Trace::_last_t
    event_mutex,     \* owner of Trace::_event_mutex
    consumer_mutex,  \* owner of Trace::_consumer_mutex
    c_lifetime,      \* Consumer::_lifetime, per sink
    c_expiry,        \* Consumer::_expiry, per sink
    c_state,         \* Consumer::_state, per sink
    stream_open,     \* Trace_to_file::_stream.is_open(), per sink
    written,         \* what Trace_to_file::_stream holds, per sink
    msec,            \* the clock get_now_msec() reads
    usec,            \* microseconds since Trace::_start_time
    pc,              \* where each thread is
    loc,             \* each thread's arguments and locals
    handed,          \* history: ids of the events consume_events got from a drain
    finish_calls,    \* history: calls of Consumer::finish, per sink
    assert_failed,   \* history: the assertion of Consumer::finish failed
    aborted,         \* the process was aborted by a failed assert
    now_max,         \* history: the greatest value now() has returned
    next_id,         \* history: id of the next event appended
    scopes,          \* the Context objects each thread has on its stack
    since,           \* history: per sink, the id of the first event recorded
                     \* after add_consumer last pushed it
    g_trace_consumer_ptr, \* the std::unique_ptr of the macros, or NULL
    destroyed,       \* the sinks whose destructor has run
    macro,           \* the macro whose second statement is still to run
    run              \* the bounds and the sinks of the run (never changes)

vars == <<enabled, consumers, events, arg_lists, meta_events, last_t,
          event_mutex, consumer_mutex, c_lifetime, c_expiry, c_state,
          stream_open, written, msec, usec, pc, loc, handed, finish_calls,
          assert_failed, aborted, now_max, next_id, scopes, since,
          g_trace_consumer_ptr, destroyed, macro, run>>

traceVars == <<enabled, consumers, events, arg_lists, meta_events>>
mutexVars == <<event_mutex, consumer_mutex>>
sinkVars == <<c_lifetime, c_expiry, c_state, stream_open, written, handed,
              finish_calls, assert_failed, aborted>>
clockVars == <<msec, usec>>
macroVars == <<g_trace_consumer_ptr, destroyed, macro>>
fixedVars == <<run, since, macroVars>>
countVars == <<fixedVars, scopes>>

(***************************************************************************)
(* Helpers.                                                                *)
(***************************************************************************)
Min(a, b) == IF a < b THEN a ELSE b

\* Consumer::Consumer clamps the lifetime
ClampLifetime(lifetime) ==
    IF lifetime > MAX_TRACE_CONSUMER_LIFETIME THEN MAX_TRACE_CONSUMER_LIFETIME
    ELSE lifetime

\* a name id that register_string is never called with
UNREGISTERED == 200

\* Trace::register_string, as test_000 calls it; Trace::Trace resizes the
\* table to 256 empty strings
registered_strings ==
    [i \in 0..255 |->
        CASE i = CTX_0 -> "context_0"
          [] i = CTX_1 -> "context_1"
          [] i = CAT_0 -> "foo"
          [] i = CAT_1 -> "foo,bar"
          [] i = COUNT_0 -> "count_0"
          [] i = DATUM_0 -> "datum_0"
          [] OTHER -> ""]

NoEvent == [name |-> 0, categories |-> 0, ph |-> "-", ts |-> 0, dur |-> 0,
            args |-> <<>>, has_args |-> FALSE]

\* the Context a destructor runs for: its _ts and _args, and the now() of
\* the scope's end
NoContext == [ts |-> 0, args |-> <<>>, now |-> 0]

IdleLoc == [op |-> "none", ev |-> NoEvent, t |-> 0, floor |-> 0, ret |-> "idle",
            consumer |-> NULL, events |-> <<>>, arg_lists |-> <<>>,
            event_strings |-> <<>>, ids |-> <<>>, now |-> 0, i |-> 0,
            expired_consumers |-> <<>>, meta_events |-> <<>>,
            registered |-> <<>>, active |-> {}, was_empty |-> FALSE,
            quiet |-> FALSE, recorded |-> 0, call_msec |-> 0,
            context |-> NoContext, visited |-> <<>>, lifetime |-> 0]

Goto(t, p) == pc' = [pc EXCEPT ![t] = p]

\* a call returns: the thread is idle again and its locals are gone
Return(t) ==
    /\ pc' = [pc EXCEPT ![t] = "idle"]
    /\ loc' = [loc EXCEPT ![t] = IdleLoc]

\* a call starts
Call(t, p, l) ==
    /\ pc[t] = "idle"
    /\ pc' = [pc EXCEPT ![t] = p]
    /\ loc' = [loc EXCEPT ![t] = l]

Range(s) == {s[k] : k \in 1..Len(s)}

(***************************************************************************)
(* Phase (src/src/singleton.h 1075-1109): the supported kinds.             *)
(***************************************************************************)
DurationBegin == "B"
DurationEnd == "E"
Counter == "C"
Metadata == "M"
Complete == "X"
\* one of the kinds the enum lists as unsupported
Instant == "i"

(***************************************************************************)
(* JSON text.  A string the code builds is the sequence of its fields,     *)
(* each <<key, value>>; a value is a quoted string, a number, raw text or  *)
(* an object (a sequence of fields).                                       *)
(***************************************************************************)
Str(s) == [k |-> "str", s |-> s, n |-> 0, o |-> <<>>]
Num(n) == [k |-> "num", s |-> "", n |-> n, o |-> <<>>]
Raw(s) == [k |-> "raw", s |-> s, n |-> 0, o |-> <<>>]
Obj(o) == [k |-> "obj", s |-> "", n |-> 0, o |-> o]

\* Trace::Arg::json_str: "key": then null, a quoted string or the number
json_str(arg) ==
    <<registered_strings[arg.key],
      CASE arg.tag = "monostate" -> Raw("null")
        [] arg.tag = "string_view" -> Str(arg.s)
        [] OTHER -> Num(arg.n)>>

Int64Arg(key, n) == [key |-> key, tag |-> "int64_t", n |-> n, s |-> ""]

\* size_t is unsigned: SIZE_MAX stands for 2^64 - 1, above every index of
\* the model
SIZE_MAX == 2147483647

\* for (size_t i = 0; i < args.size() - 1; ++i): the bound of the loop, which
\* wraps for an empty vector
LoopBound(size) == IF size = 0 THEN SIZE_MAX ELSE size - 1

\* the loop reads args[0] .. args[LoopBound - 1]: all of them elements of
\* the vector
InBounds(args) == LoopBound(Len(args)) <= Len(args)

\* what a read past the end of a vector yields
Garbage == <<"", Raw("?")>>

\* the "args" object of advance_consumers: every element but the last
\* followed by a comma, then the last; for an empty vector the loop runs
\* past the end
ArgsJson(args) ==
    IF InBounds(args) THEN [k \in 1..Len(args) |-> json_str(args[k])]
    ELSE <<Garbage>>

\* the conversion of a batch reads past the end of an argument list
Overrun(evs, lists) ==
    \E k \in 1..Len(evs) :
       evs[k].args_index # -1 /\ ~InBounds(lists[evs[k].args_index + 1])

\* a conversion that writes a counter like a DurationBegin, with its "cat"
EventStringCounterCat(event, lists) ==
    LET name == <<"name", Str(registered_strings[event.name])>>
        cat == <<"cat", Str(registered_strings[event.categories])>>
        ph == <<"ph", Str(event.ph)>>
        ts == <<"ts", Num(event.ts)>>
        dur == <<"dur", Num(event.dur)>>
        pid == <<"pid", Num(1)>>
        tid == <<"tid", Raw(event.tid)>>
        head == IF event.ph = Complete THEN <<name, cat, ph, ts, dur, pid>>
                ELSE <<name, cat, ph, ts, pid>>
        args == IF event.args_index # -1
                THEN << <<"args", Obj(ArgsJson(lists[event.args_index + 1]))>> >>
                ELSE <<>>
    IN  head \o <<tid>> \o args

\* a conversion that writes "dur" for every event that is not a counter
EventStringAlwaysDur(event, lists) ==
    LET name == <<"name", Str(registered_strings[event.name])>>
        cat == <<"cat", Str(registered_strings[event.categories])>>
        ph == <<"ph", Str(event.ph)>>
        ts == <<"ts", Num(event.ts)>>
        dur == <<"dur", Num(event.dur)>>
        pid == <<"pid", Num(1)>>
        tid == <<"tid", Raw(event.tid)>>
        head == IF event.ph = Counter THEN <<name, ph, ts, pid>>
                ELSE <<name, cat, ph, ts, dur, pid>>
        args == IF event.args_index # -1
                THEN << <<"args", Obj(ArgsJson(lists[event.args_index + 1]))>> >>
                ELSE <<>>
    IN  head \o <<tid>> \o args

\* advance_consumers, the body of the loop that converts events to strings
EventString(event, lists) ==
    LET name == <<"name", Str(registered_strings[event.name])>>
        cat == <<"cat", Str(registered_strings[event.categories])>>
        ph == <<"ph", Str(event.ph)>>
        ts == <<"ts", Num(event.ts)>>
        dur == <<"dur", Num(event.dur)>>
        pid == <<"pid", Num(1)>>
        tid == <<"tid", Raw(event.tid)>>
        head == IF event.ph = Complete THEN <<name, cat, ph, ts, dur, pid>>
                ELSE IF event.ph = Counter THEN <<name, ph, ts, pid>>
                ELSE <<name, cat, ph, ts, pid>>
        args == IF event.args_index # -1
                THEN << <<"args", Obj(ArgsJson(lists[event.args_index + 1]))>> >>
                ELSE <<>>
    IN  head \o <<tid>> \o args

EventStrings(evs, lists) == [k \in 1..Len(evs) |-> EventString(evs[k], lists)]

\* add_meta_event, the string it formats
MetaString(type, tid, arg_name, value) ==
    << <<"name", Str(type)>>, <<"ph", Str(Metadata)>>, <<"pid", Num(1)>>,
       <<"tid", Raw(tid)>>, <<"args", Obj(<< <<arg_name, value>> >>)>> >>

(***************************************************************************)
(* Trace::now (src/src/singleton.h 1185-1201).  _last_t is a plain         *)
(* uint64_t read and written without a lock: the read (with the clock      *)
(* read) and the write are two steps, and other threads run in between.    *)
(***************************************************************************)
\* a now() without the step past _last_t
NowValueNoStep(clock, last) == IF clock <= last THEN last ELSE clock

NowValue(clock, last) == IF clock <= last THEN last + 1 ELSE clock

\* a thread calls now() and continues at ret
CallNow(t, ret) ==
    /\ pc' = [pc EXCEPT ![t] = "now_load"]
    /\ loc' = [loc EXCEPT ![t].ret = ret]

NowLoad(t) ==
    /\ pc[t] = "now_load"
    /\ loc' = [loc EXCEPT ![t].t = NowValue(usec, last_t),
                           ![t].floor = IF run.history THEN now_max ELSE 0]
    /\ Goto(t, "now_store")
    /\ UNCHANGED <<traceVars, last_t, mutexVars, sinkVars, clockVars,
                   now_max, next_id, countVars>>

NowStore(t) ==
    /\ pc[t] = "now_store"
    /\ last_t' = loc[t].t
    /\ now_max' = IF loc[t].t > now_max THEN loc[t].t ELSE now_max
    /\ Goto(t, loc[t].ret)
    /\ UNCHANGED <<traceVars, mutexVars, sinkVars, clockVars, loc,
                   next_id, countVars>>

(***************************************************************************)
(* Recording calls (src/unnamed/part_003 41-143).                          *)
(***************************************************************************)
\* recording calls under way, now() calls of theirs included
Recording == {t \in Threads : loc[t].op \in
                 {"add_event", "add_event_with_args", "set_counter"}}

\* the Context objects alive: each records an event when its scope ends
RECURSIVE OpenScopes(_)
OpenScopes(ts) ==
    IF ts = {} THEN 0
    ELSE LET t == CHOOSE u \in ts : TRUE
         IN  Len(scopes[t]) + OpenScopes(ts \ {t})

\* at most run.max_events calls, so that many events at most are appended
MayRecord(t) ==
    (next_id - 1) + Cardinality(Recording) + OpenScopes(Threads) < run.max_events

Event(ev, ts, tid, args_index, id) ==
    [name |-> ev.name, categories |-> ev.categories, ts |-> ts, dur |-> ev.dur,
     tid |-> tid, args_index |-> args_index, ph |-> ev.ph, id |-> id]

Lock(m, t) == m = NoThread

\* add_event(name, categories, ph): TRACE_BEGIN and TRACE_END, ts = dur = 0
AddEventCall(t) ==
    /\ MayRecord(t)
    /\ \E ph \in run.phases : \E name \in run.names :
          Call(t, "add_event",
               [IdleLoc EXCEPT !.op = "add_event",
                   !.ev = [NoEvent EXCEPT !.name = name, !.categories = CAT_0,
                                          !.ph = ph]])
    /\ UNCHANGED <<traceVars, last_t, mutexVars, sinkVars, clockVars, now_max,
                   next_id, countVars>>

\* if (_enabled) { if (ts == 0) ts = now(); ...
AddEventEnabled(t) ==
    /\ pc[t] = "add_event"
    /\ IF ~enabled THEN Return(t)
       ELSE /\ IF loc[t].ev.ts = 0 THEN CallNow(t, "add_event_lock")
               ELSE Goto(t, "add_event_lock") /\ UNCHANGED loc
    /\ UNCHANGED <<traceVars, last_t, mutexVars, sinkVars, clockVars, now_max,
                   next_id, countVars>>

AddEventLock(t) ==
    /\ pc[t] = "add_event_lock"
    /\ Lock(event_mutex, t)
    /\ event_mutex' = t
    /\ Goto(t, "add_event_push")
    /\ UNCHANGED <<traceVars, last_t, consumer_mutex, sinkVars, clockVars, loc, now_max, next_id, countVars>>

\* an add_event that puts the event at the front of the buffer
AddEventPushFront(t) ==
    /\ pc[t] = "add_event_push"
    /\ LET ts == IF loc[t].ev.ts = 0 THEN loc[t].t ELSE loc[t].ev.ts
       IN  events' = <<Event(loc[t].ev, ts, t, -1, next_id)>> \o events
    /\ next_id' = next_id + 1
    /\ event_mutex' = NoThread
    /\ Return(t)
    /\ UNCHANGED <<enabled, consumers, arg_lists, meta_events, last_t,
                   consumer_mutex, sinkVars, clockVars, now_max, countVars>>

\* _events.push_back({name, categories, ts, dur, tid, -1, ph});
AddEventPush(t) ==
    /\ pc[t] = "add_event_push"
    /\ LET ts == IF loc[t].ev.ts = 0 THEN loc[t].t ELSE loc[t].ev.ts
       IN  events' = Append(events, Event(loc[t].ev, ts, t, -1, next_id))
    /\ next_id' = next_id + 1
    /\ event_mutex' = NoThread
    /\ Return(t)
    /\ UNCHANGED <<enabled, consumers, arg_lists, meta_events, last_t,
                   consumer_mutex, sinkVars, clockVars, now_max, countVars>>

\* add_event_with_args(name, categories, ph, args), ts = dur = 0
AddEventWithArgsCall(t) ==
    /\ MayRecord(t)
    /\ \E empty \in run.empty_args :
       Call(t, "add_event_with_args",
            [IdleLoc EXCEPT !.op = "add_event_with_args",
                !.ev = [NoEvent EXCEPT !.name = CTX_0, !.categories = CAT_0,
                           !.ph = DurationBegin,
                           !.args = IF empty THEN <<>>
                                    ELSE <<Int64Arg(DATUM_0, 13)>>,
                           !.has_args = TRUE]])
    /\ UNCHANGED <<traceVars, last_t, mutexVars, sinkVars, clockVars, now_max,
                   next_id, countVars>>

\* an add_event_with_args without the test of _enabled
AddEventWithArgsUnguarded(t) ==
    /\ pc[t] = "add_event_with_args"
    /\ CallNow(t, "add_event_with_args_lock")
    /\ UNCHANGED <<traceVars, last_t, mutexVars, sinkVars, clockVars, now_max,
                   next_id, countVars>>

AddEventWithArgsEnabled(t) ==
    /\ pc[t] = "add_event_with_args"
    /\ IF ~enabled THEN Return(t)
       ELSE /\ IF loc[t].ev.ts = 0 THEN CallNow(t, "add_event_with_args_lock")
               ELSE Goto(t, "add_event_with_args_lock") /\ UNCHANGED loc
    /\ UNCHANGED <<traceVars, last_t, mutexVars, sinkVars, clockVars, now_max,
                   next_id, countVars>>

AddEventWithArgsLock(t) ==
    /\ pc[t] = "add_event_with_args_lock"
    /\ Lock(event_mutex, t)
    /\ event_mutex' = t
    /\ Goto(t, "add_event_with_args_push")
    /\ UNCHANGED <<traceVars, last_t, consumer_mutex, sinkVars, clockVars, loc, now_max, next_id, countVars>>

AddEventWithArgsPush(t) ==
    /\ pc[t] = "add_event_with_args_push"
    /\ LET ts == IF loc[t].ev.ts = 0 THEN loc[t].t ELSE loc[t].ev.ts
           args_index == Len(arg_lists)
       IN  /\ arg_lists' = Append(arg_lists, loc[t].ev.args)
           /\ events' = Append(events,
                               Event(loc[t].ev, ts, t, args_index, next_id))
    /\ next_id' = next_id + 1
    /\ event_mutex' = NoThread
    /\ Return(t)
    /\ UNCHANGED <<enabled, consumers, meta_events, last_t, consumer_mutex,
                   sinkVars, clockVars, now_max, countVars>>

\* set_counter(name, count_name, count)
SetCounterCall(t) ==
    /\ MayRecord(t)
    /\ Call(t, "set_counter",
            [IdleLoc EXCEPT !.op = "set_counter",
                !.ev = [NoEvent EXCEPT !.name = COUNT_0, !.categories = DATUM_0,
                           !.ph = Counter,
                           !.args = <<Int64Arg(DATUM_0, 13)>>,
                           !.has_args = TRUE]])
    /\ UNCHANGED <<traceVars, last_t, mutexVars, sinkVars, clockVars, now_max,
                   next_id, countVars>>

SetCounterEnabled(t) ==
    /\ pc[t] = "set_counter"
    /\ IF ~enabled THEN Return(t)
       ELSE Goto(t, "set_counter_lock") /\ UNCHANGED <<loc>>
    /\ UNCHANGED <<traceVars, last_t, mutexVars, sinkVars, clockVars, now_max,
                   next_id, countVars>>

\* the lock is taken first, and now() is called while it is held
SetCounterLock(t) ==
    /\ pc[t] = "set_counter_lock"
    /\ Lock(event_mutex, t)
    /\ event_mutex' = t
    /\ CallNow(t, "set_counter_push")
    /\ UNCHANGED <<traceVars, last_t, consumer_mutex, sinkVars, clockVars, now_max, next_id, countVars>>

SetCounterPush(t) ==
    /\ pc[t] = "set_counter_push"
    /\ LET args_index == Len(arg_lists)
       IN  /\ arg_lists' = Append(arg_lists, loc[t].ev.args)
           /\ events' = Append(events,
                               Event(loc[t].ev, loc[t].t, t, args_index, next_id))
    /\ next_id' = next_id + 1
    /\ event_mutex' = NoThread
    /\ Return(t)
    /\ UNCHANGED <<enabled, consumers, meta_events, last_t, consumer_mutex,
                   sinkVars, clockVars, now_max, countVars>>

\* add_meta_event(type, arg), the string form
MetaTypes == {"thread_name", "thread_colour"}

\* an add_meta_event that takes every kind for a name
arg_name_any(type) ==
    CASE type = "process_labels" -> "labels"
      [] OTHER -> "name"

arg_name(type) ==
    CASE type = "process_name" -> "name"
      [] type = "process_labels" -> "labels"
      [] type = "thread_name" -> "name"
      [] OTHER -> ""

\* calls of add_meta_event under way, of either form
MetaCalls == {"add_meta_event", "add_meta_event_int"}

AddMetaEventCall(t) ==
    /\ Len(meta_events) + Cardinality({u \in Threads : loc[u].op \in MetaCalls})
          < run.max_meta
    /\ \E type \in MetaTypes :
          Call(t, "add_meta_event",
               [IdleLoc EXCEPT !.op = "add_meta_event", !.ev.ph = type])
    /\ UNCHANGED <<traceVars, last_t, mutexVars, sinkVars, clockVars, now_max,
                   next_id, countVars>>

\* if (!arg_name.empty()) { ... lock
AddMetaEventLock(t) ==
    /\ pc[t] = "add_meta_event"
    /\ IF arg_name(loc[t].ev.ph) = ""
       THEN Return(t) /\ UNCHANGED event_mutex
       ELSE /\ Lock(event_mutex, t)
            /\ event_mutex' = t
            /\ Goto(t, "add_meta_event_push")
            /\ UNCHANGED <<loc>>
    /\ UNCHANGED <<traceVars, last_t, consumer_mutex, sinkVars, clockVars,
                   now_max, next_id, countVars>>

\* an add_meta_event that appends only while capture is enabled
AddMetaEventPushIfEnabled(t) ==
    /\ pc[t] = "add_meta_event_push"
    /\ meta_events' =
          IF enabled
          THEN Append(meta_events,
                  MetaString(loc[t].ev.ph, t, arg_name(loc[t].ev.ph), Str("worker")))
          ELSE meta_events
    /\ event_mutex' = NoThread
    /\ Return(t)
    /\ UNCHANGED <<enabled, consumers, events, arg_lists, last_t,
                   consumer_mutex, sinkVars, clockVars, now_max, next_id,
                   countVars>>

AddMetaEventPush(t) ==
    /\ pc[t] = "add_meta_event_push"
    /\ meta_events' = Append(meta_events,
           MetaString(loc[t].ev.ph, t, arg_name(loc[t].ev.ph), Str("worker")))
    /\ event_mutex' = NoThread
    /\ Return(t)
    /\ UNCHANGED <<enabled, consumers, events, arg_lists, last_t,
                   consumer_mutex, sinkVars, clockVars, now_max, next_id,
                   countVars>>

\* add_meta_event(type, arg), the uint32_t form
IntMetaTypes == {"thread_sort_index", "thread_name"}

sort_index(type) == type = "process_sort_index" \/ type = "thread_sort_index"

AddMetaEventIntCall(t) ==
    /\ Len(meta_events) + Cardinality({u \in Threads : loc[u].op \in MetaCalls})
          < run.max_meta
    /\ \E type \in IntMetaTypes :
          Call(t, "add_meta_event_int",
               [IdleLoc EXCEPT !.op = "add_meta_event_int", !.ev.ph = type,
                               !.ev.dur = 2])
    /\ UNCHANGED <<traceVars, last_t, mutexVars, sinkVars, clockVars, now_max,
                   next_id, countVars>>

\* if (type == "process_sort_index" || type == "thread_sort_index") {
\* the string is formatted, and then the lock is taken
AddMetaEventIntLock(t) ==
    /\ pc[t] = "add_meta_event_int"
    /\ IF ~sort_index(loc[t].ev.ph)
       THEN Return(t) /\ UNCHANGED event_mutex
       ELSE /\ Lock(event_mutex, t)
            /\ event_mutex' = t
            /\ Goto(t, "add_meta_event_int_push")
            /\ UNCHANGED <<loc>>
    /\ UNCHANGED <<traceVars, last_t, consumer_mutex, sinkVars, clockVars,
                   now_max, next_id, countVars>>

AddMetaEventIntPush(t) ==
    /\ pc[t] = "add_meta_event_int_push"
    /\ meta_events' = Append(meta_events,
           MetaString(loc[t].ev.ph, t, "sort_index", Num(loc[t].ev.dur)))
    /\ event_mutex' = NoThread
    /\ Return(t)
    /\ UNCHANGED <<enabled, consumers, events, arg_lists, last_t,
                   consumer_mutex, sinkVars, clockVars, now_max, next_id,
                   countVars>>

(***************************************************************************)
(* Trace::Context (src/src/singleton.h 1149-1176): TRACE_CONTEXT puts one  *)
(* on the stack, and the end of the scope destroys it.  Scopes nest as in  *)
(* test_000: the scope at depth d is named CTX_0 + d, in category          *)
(* CAT_0 + d.                                                              *)
(***************************************************************************)
\* Context(name, categories): _ts = Trace::instance().now();
\* The application opens a scope while a trace is running (a scope opened
\* while capture is off records nothing unless a trace starts before it
\* ends).
ContextCall(t) ==
    /\ Len(scopes[t]) < run.max_depth
    /\ MayRecord(t)
    /\ enabled
    /\ pc[t] = "idle"
    /\ loc' = [loc EXCEPT ![t] =
                  [IdleLoc EXCEPT !.op = "context", !.ret = "context_ctor",
                      !.ev = [NoEvent EXCEPT !.name = CTX_0 + Len(scopes[t]),
                                 !.categories = CAT_0 + Len(scopes[t]),
                                 !.ph = Complete]]]
    /\ Goto(t, "now_load")
    /\ UNCHANGED <<traceVars, last_t, mutexVars, sinkVars, clockVars, now_max,
                   next_id, countVars>>

ContextCtor(t) ==
    /\ pc[t] = "context_ctor"
    /\ scopes' = [scopes EXCEPT ![t] =
                     Append(@, [name |-> loc[t].ev.name,
                                categories |-> loc[t].ev.categories,
                                ts |-> loc[t].t, args |-> <<>>])]
    /\ Return(t)
    /\ UNCHANGED <<traceVars, last_t, mutexVars, sinkVars, clockVars, now_max,
                   next_id, fixedVars>>

\* ~Context(): the argument now() - _ts is evaluated first
ContextEnd(t) ==
    /\ scopes[t] # <<>>
    /\ pc[t] = "idle"
    /\ loc' = [loc EXCEPT ![t] =
                  [IdleLoc EXCEPT !.op = "context_end", !.ret = "context_dtor"]]
    /\ Goto(t, "now_load")
    /\ UNCHANGED <<traceVars, last_t, mutexVars, sinkVars, clockVars, now_max,
                   next_id, countVars>>

\* void add_arg(const KeyedVariant& kv) { _args.push_back(...); } on the
\* innermost Context; the k-th argument added has the value k
ContextAddArg(t) ==
    /\ pc[t] = "idle"
    /\ scopes[t] # <<>>
    /\ Len(scopes[t][Len(scopes[t])].args) < run.max_args
    /\ scopes' = [scopes EXCEPT ![t][Len(scopes[t])].args =
                     Append(@, Int64Arg(DATUM_0, Len(@) + 1))]
    /\ UNCHANGED <<traceVars, last_t, mutexVars, sinkVars, clockVars, pc, loc,
                   now_max, next_id, fixedVars>>

\* a destructor that records without the arguments
ContextDtorDropsArgs(t) ==
    /\ pc[t] = "context_dtor"
    /\ LET context == scopes[t][Len(scopes[t])]
       IN  loc' = [loc EXCEPT ![t] =
                      [IdleLoc EXCEPT !.op = "add_event",
                          !.ev = [NoEvent EXCEPT !.name = context.name,
                                     !.categories = context.categories,
                                     !.ph = Complete, !.ts = context.ts,
                                     !.dur = loc[t].t - context.ts],
                          !.context = [ts |-> context.ts, args |-> context.args,
                                       now |-> loc[t].t]]]
    /\ scopes' = [scopes EXCEPT ![t] = SubSeq(@, 1, Len(@) - 1)]
    /\ Goto(t, "add_event")
    /\ UNCHANGED <<traceVars, last_t, mutexVars, sinkVars, clockVars, now_max,
                   next_id, fixedVars>>

\* if (_args.empty()) add_event(_name, _categories, Phase::Complete, _ts,
\* now() - _ts); else add_event_with_args(..., _args, _ts, now() - _ts);
\* the innermost Context is destroyed
ContextDtor(t) ==
    /\ pc[t] = "context_dtor"
    /\ LET context == scopes[t][Len(scopes[t])]
           ev == [NoEvent EXCEPT !.name = context.name,
                     !.categories = context.categories,
                     !.ph = Complete, !.ts = context.ts,
                     !.dur = loc[t].t - context.ts]
           this == [ts |-> context.ts, args |-> context.args, now |-> loc[t].t]
       IN  IF context.args = <<>>
           THEN /\ loc' = [loc EXCEPT ![t] =
                              [IdleLoc EXCEPT !.op = "add_event", !.ev = ev,
                                              !.context = this]]
                /\ Goto(t, "add_event")
           ELSE /\ loc' = [loc EXCEPT ![t] =
                              [IdleLoc EXCEPT !.op = "add_event_with_args",
                                  !.ev = [ev EXCEPT !.args = context.args,
                                                    !.has_args = TRUE],
                                  !.context = this]]
                /\ Goto(t, "add_event_with_args")
    /\ scopes' = [scopes EXCEPT ![t] = SubSeq(@, 1, Len(@) - 1)]
    /\ UNCHANGED <<traceVars, last_t, mutexVars, sinkVars, clockVars, now_max,
                   next_id, fixedVars>>

(***************************************************************************)
(* Consumer (src/unnamed/part_002 184-234) and Trace_to_file               *)
(* (src/src/consumer.cpp 24-61).                                           *)
(***************************************************************************)
\* void update_expiry(uint64_t now) { _expiry = now + _lifetime; }
update_expiry(lifetime, now) == now + lifetime

\* void check_expiry(uint64_t now) { if (now > _expiry) _state = EXPIRED; }
check_expiry(state, expiry, now) == IF now > expiry THEN "EXPIRED" ELSE state

is_expired(state) == state = "EXPIRED"
is_complete(state) == state = "COMPLETE"

\* the pieces of text Trace_to_file writes
Opener == [tok |-> "{\"traceEvents\":[", json |-> <<>>]
Separator == [tok |-> ",", json |-> <<>>]
Closer == [tok |-> "]}", json |-> <<>>]
Json(s) == [tok |-> "json", json |-> s]

\* a constructor that writes the opener whether the stream opened or not
TraceToFileOpener(opened) == <<Opener>>

\* Trace_to_file::Trace_to_file: the stream is opened and, if that worked,
\* the opener is written; if not, the stream stays closed and empty
TraceToFile(opened) == IF opened THEN <<Opener>> ELSE <<>>

\* Trace_to_file::consume_events: each string followed by ",\n", and
\* nothing when the stream is not open
RECURSIVE consume_events(_, _, _)
consume_events(open, stream, strings) ==
    IF ~open \/ strings = <<>> THEN stream
    ELSE consume_events(open, stream \o <<Json(Head(strings)), Separator>>,
                        Tail(strings))

\* Trace_to_file::finish, the bogus event that ends the array
bogus_event(tid, ts) ==
    << <<"name", Str("end_of_trace")>>, <<"ph", Str(Complete)>>,
       <<"pid", Num(1)>>, <<"tid", Raw(tid)>>, <<"ts", Num(ts)>>,
       <<"dur", Num(1000)>> >>

(***************************************************************************)
(* Trace::advance_consumers (src/unnamed/part_003 145-292).                *)
(***************************************************************************)

\* the locals of a drain; in a run that keeps history, registered, active,
\* was_empty, quiet, recorded and call_msec remember the state the call was
\* made in, and visited the sinks consume_events was called on, in order
DrainLoc(op) ==
    IF run.history
    THEN [IdleLoc EXCEPT !.op = op, !.registered = consumers,
                         !.active = {c \in Sinks : c_state[c] = "ACTIVE"},
                         !.was_empty = (events = <<>>),
                         !.quiet = (Recording = {}),
                         !.recorded = next_id - 1,
                         !.call_msec = msec]
    ELSE [IdleLoc EXCEPT !.op = op]

AdvanceConsumersCall(t) ==
    /\ Call(t, "advance_consumers", DrainLoc("advance_consumers"))
    /\ UNCHANGED <<traceVars, last_t, mutexVars, sinkVars, clockVars, now_max,
                   next_id, countVars>>

\* an advance_consumers that goes on when _events is empty
AdvanceEventsEmptyGoesOn(t) ==
    /\ pc[t] = "advance_consumers"
    /\ Goto(t, "advance_lock_events")
    /\ UNCHANGED <<traceVars, last_t, mutexVars, sinkVars, clockVars, loc,
                   now_max, next_id, countVars>>

\* if (_events.empty()) return;   (read without the lock)
AdvanceEventsEmpty(t) ==
    /\ pc[t] = "advance_consumers"
    /\ IF events = <<>> THEN Return(t)
       ELSE Goto(t, "advance_lock_events") /\ UNCHANGED <<loc>>
    /\ UNCHANGED <<traceVars, last_t, mutexVars, sinkVars, clockVars, now_max,
                   next_id, countVars>>

AdvanceLockEvents(t) ==
    /\ pc[t] = "advance_lock_events"
    /\ Lock(event_mutex, t)
    /\ event_mutex' = t
    /\ Goto(t, "advance_swap")
    /\ UNCHANGED <<traceVars, last_t, consumer_mutex, sinkVars, clockVars, loc, now_max, next_id, countVars>>

\* a swap whose lock guard outlives the block: _event_mutex stays locked
AdvanceSwapKeepsLock(t) ==
    /\ pc[t] = "advance_swap"
    /\ loc' = [loc EXCEPT ![t].events = events, ![t].arg_lists = arg_lists]
    /\ events' = <<>>
    /\ arg_lists' = <<>>
    /\ Goto(t, "advance_consumers_empty")
    /\ UNCHANGED <<enabled, consumers, meta_events, last_t, mutexVars,
                   sinkVars, clockVars, now_max, next_id, countVars>>

\* a swap of the events that leaves the argument lists behind
AdvanceSwapEventsOnly(t) ==
    /\ pc[t] = "advance_swap"
    /\ loc' = [loc EXCEPT ![t].events = events]
    /\ events' = <<>>
    /\ event_mutex' = NoThread
    /\ Goto(t, "advance_consumers_empty")
    /\ UNCHANGED <<enabled, consumers, arg_lists, meta_events, last_t,
                   consumer_mutex, sinkVars, clockVars, now_max, next_id,
                   countVars>>

\* events.swap(_events); arg_lists.swap(_arg_lists);
AdvanceSwap(t) ==
    /\ pc[t] = "advance_swap"
    /\ loc' = [loc EXCEPT ![t].events = events, ![t].arg_lists = arg_lists]
    /\ events' = <<>>
    /\ arg_lists' = <<>>
    /\ event_mutex' = NoThread
    /\ Goto(t, "advance_consumers_empty")
    /\ UNCHANGED <<enabled, consumers, meta_events, last_t, consumer_mutex,
                   sinkVars, clockVars, now_max, next_id, countVars>>

\* an advance_consumers that puts the batch back when no sink is registered
AdvanceConsumersEmptyPutsBack(t) ==
    /\ pc[t] = "advance_consumers_empty"
    /\ IF consumers = <<>>
       THEN /\ Return(t)
            /\ events' = loc[t].events \o events
            /\ arg_lists' = loc[t].arg_lists \o arg_lists
       ELSE /\ loc' = [loc EXCEPT
                  ![t].event_strings = EventStrings(loc[t].events, loc[t].arg_lists),
                  ![t].ids = [k \in 1..Len(loc[t].events) |-> loc[t].events[k].id],
                  ![t].now = msec]
            /\ Goto(t, "advance_lock_consumers")
            /\ UNCHANGED <<events, arg_lists>>
    /\ UNCHANGED <<enabled, consumers, meta_events, last_t, mutexVars, sinkVars,
                   clockVars, now_max, next_id, countVars>>

\* if (_consumers.empty()) return;   (read without the lock), then the
\* conversion of the events to strings and now = get_now_msec().  A
\* conversion that reads past the end of an argument list is undefined: the
\* process dies there, or goes on with what it read.
AdvanceConsumersEmpty(t) ==
    /\ pc[t] = "advance_consumers_empty"
    /\ IF consumers = <<>> THEN Return(t) /\ UNCHANGED aborted
       ELSE /\ loc' = [loc EXCEPT
                  ![t].event_strings = EventStrings(loc[t].events, loc[t].arg_lists),
                  ![t].ids = [k \in 1..Len(loc[t].events) |-> loc[t].events[k].id],
                  ![t].now = msec]
            /\ Goto(t, "advance_lock_consumers")
            /\ IF Overrun(loc[t].events, loc[t].arg_lists)
               THEN aborted' \in BOOLEAN
               ELSE UNCHANGED aborted
    /\ UNCHANGED <<traceVars, last_t, mutexVars, c_lifetime, c_expiry, c_state,
                   stream_open, written, handed, finish_calls, assert_failed,
                   clockVars, now_max, next_id, countVars>>

AdvanceLockConsumers(t) ==
    /\ pc[t] = "advance_lock_consumers"
    /\ Lock(consumer_mutex, t)
    /\ consumer_mutex' = t
    /\ loc' = [loc EXCEPT ![t].i = 0, ![t].expired_consumers = <<>>]
    /\ Goto(t, "advance_loop")
    /\ UNCHANGED <<traceVars, last_t, event_mutex, sinkVars, clockVars, now_max, next_id, countVars>>

Visit(visited, consumer) ==
    IF run.history THEN Append(visited, consumer) ELSE visited

\* a loop that leaves an expired sink in _consumers
AdvanceLoopKeeps(t) ==
    /\ pc[t] = "advance_loop"
    /\ loc[t].i < Len(consumers)
    /\ LET i == loc[t].i
           consumer == consumers[i + 1]
           state == check_expiry(c_state[consumer], c_expiry[consumer], loc[t].now)
       IN  /\ handed' = [handed EXCEPT ![consumer] = handed[consumer] \o loc[t].ids]
           /\ written' = [written EXCEPT ![consumer] =
                  consume_events(stream_open[consumer], written[consumer],
                                 loc[t].event_strings)]
           /\ c_state' = [c_state EXCEPT ![consumer] = state]
           /\ loc' = [loc EXCEPT
                  ![t].expired_consumers =
                      IF is_expired(state)
                      THEN Append(loc[t].expired_consumers, consumer)
                      ELSE loc[t].expired_consumers,
                  ![t].i = i + 1]
    /\ UNCHANGED <<traceVars, last_t, mutexVars, c_lifetime, c_expiry,
                   stream_open, finish_calls, assert_failed, aborted, clockVars,
                   pc, now_max, next_id, countVars>>

\* a loop that steps over the sink moved into the place of an expired one
AdvanceLoopSkips(t) ==
    /\ pc[t] = "advance_loop"
    /\ loc[t].i < Len(consumers)
    /\ LET i == loc[t].i
           consumer == consumers[i + 1]
           state == check_expiry(c_state[consumer], c_expiry[consumer], loc[t].now)
           last_index == Len(consumers) - 1
           moved == IF i # last_index
                    THEN [consumers EXCEPT ![i + 1] = consumers[last_index + 1]]
                    ELSE consumers
           popped == SubSeq(moved, 1, last_index)
       IN  /\ handed' = [handed EXCEPT ![consumer] = handed[consumer] \o loc[t].ids]
           /\ IF consumer \in run.throwing
              THEN /\ consumer_mutex' = NoThread
                   /\ Return(t)
                   /\ aborted' \in BOOLEAN
                   /\ UNCHANGED <<written, c_state, consumers, enabled>>
              ELSE /\ written' = [written EXCEPT ![consumer] =
                          consume_events(stream_open[consumer], written[consumer],
                                         loc[t].event_strings)]
                   /\ c_state' = [c_state EXCEPT ![consumer] = state]
                   /\ IF is_expired(state)
                      THEN /\ loc' = [loc EXCEPT
                                 ![t].expired_consumers =
                                     Append(loc[t].expired_consumers, consumer),
                                 ![t].i = i + 1,
                                 ![t].visited = Visit(@, consumer)]
                           /\ consumers' = popped
                           /\ enabled' = IF Len(popped) = 0 THEN FALSE ELSE enabled
                      ELSE /\ loc' = [loc EXCEPT ![t].i = i + 1,
                                         ![t].visited = Visit(@, consumer)]
                           /\ UNCHANGED <<consumers, enabled>>
                   /\ UNCHANGED <<consumer_mutex, pc, aborted>>
    /\ UNCHANGED <<events, arg_lists, meta_events, last_t, event_mutex,
                   c_lifetime, c_expiry, stream_open, finish_calls,
                   assert_failed, clockVars, now_max, next_id, countVars>>

\* one iteration of while (i < _consumers.size()).  consume_events is the
\* sink's own (Consumer::consume_events is pure virtual) and nothing in the
\* loop catches what it throws: an exception leaves advance_consumers,
\* unlocking _consumer_mutex on the way, and ends the process unless the
\* caller catches it.
AdvanceLoop(t) ==
    /\ pc[t] = "advance_loop"
    /\ loc[t].i < Len(consumers)
    /\ LET i == loc[t].i
           consumer == consumers[i + 1]
           state == check_expiry(c_state[consumer], c_expiry[consumer], loc[t].now)
           last_index == Len(consumers) - 1
           moved == IF i # last_index
                    THEN [consumers EXCEPT ![i + 1] = consumers[last_index + 1]]
                    ELSE consumers
           popped == SubSeq(moved, 1, last_index)
       IN  /\ handed' = [handed EXCEPT ![consumer] = handed[consumer] \o loc[t].ids]
           /\ IF consumer \in run.throwing
              THEN /\ consumer_mutex' = NoThread
                   /\ Return(t)
                   /\ aborted' \in BOOLEAN
                   /\ UNCHANGED <<written, c_state, consumers, enabled>>
              ELSE /\ written' = [written EXCEPT ![consumer] =
                          consume_events(stream_open[consumer], written[consumer],
                                         loc[t].event_strings)]
                   /\ c_state' = [c_state EXCEPT ![consumer] = state]
                   /\ IF is_expired(state)
                      THEN /\ loc' = [loc EXCEPT
                                 ![t].expired_consumers =
                                     Append(loc[t].expired_consumers, consumer),
                                 ![t].i = IF i # last_index THEN i ELSE i + 1,
                                 ![t].visited = Visit(@, consumer)]
                           /\ consumers' = popped
                           /\ enabled' = IF Len(popped) = 0 THEN FALSE ELSE enabled
                      ELSE /\ loc' = [loc EXCEPT ![t].i = i + 1,
                                         ![t].visited = Visit(@, consumer)]
                           /\ UNCHANGED <<consumers, enabled>>
                   /\ UNCHANGED <<consumer_mutex, pc, aborted>>
    /\ UNCHANGED <<events, arg_lists, meta_events, last_t, event_mutex,
                   c_lifetime, c_expiry, stream_open, finish_calls,
                   assert_failed, clockVars, now_max, next_id, countVars>>

\* a loop that is left as soon as one sink has expired
AdvanceLoopEndsEarly(t) ==
    /\ pc[t] = "advance_loop"
    /\ loc[t].i >= Len(consumers) \/ Len(loc[t].expired_consumers) > 0
    /\ IF Len(loc[t].expired_consumers) > 0
       THEN /\ Goto(t, "advance_lock_meta")
            /\ UNCHANGED <<consumer_mutex, loc>>
       ELSE /\ consumer_mutex' = NoThread
            /\ Return(t)
    /\ UNCHANGED <<traceVars, last_t, event_mutex, sinkVars, clockVars, now_max,
                   next_id, countVars>>

\* the loop is over: if (expired_consumers.size() > 0) ..., else return
AdvanceLoopEnd(t) ==
    /\ pc[t] = "advance_loop"
    /\ loc[t].i >= Len(consumers)
    /\ IF Len(loc[t].expired_consumers) > 0
       THEN /\ Goto(t, "advance_lock_meta")
            /\ UNCHANGED <<consumer_mutex, loc>>
       ELSE /\ consumer_mutex' = NoThread
            /\ Return(t)
    /\ UNCHANGED <<traceVars, last_t, event_mutex, sinkVars, clockVars, now_max,
                   next_id, countVars>>

\* _event_mutex is locked under _consumer_mutex
AdvanceLockMeta(t) ==
    /\ pc[t] = "advance_lock_meta"
    /\ Lock(event_mutex, t)
    /\ event_mutex' = t
    /\ Goto(t, "advance_copy_meta")
    /\ UNCHANGED <<traceVars, last_t, consumer_mutex, sinkVars, clockVars, loc, now_max, next_id, countVars>>

\* a drain that moves the meta-events out of _meta_events
AdvanceMoveMeta(t) ==
    /\ pc[t] = "advance_copy_meta"
    /\ loc' = [loc EXCEPT ![t].meta_events = meta_events, ![t].i = 0]
    /\ meta_events' = <<>>
    /\ event_mutex' = NoThread
    /\ Goto(t, "advance_finish")
    /\ UNCHANGED <<enabled, consumers, events, arg_lists, last_t,
                   consumer_mutex, sinkVars, clockVars, now_max, next_id,
                   countVars>>

\* meta_events = _meta_events;
AdvanceCopyMeta(t) ==
    /\ pc[t] = "advance_copy_meta"
    /\ loc' = [loc EXCEPT ![t].meta_events = meta_events, ![t].i = 0]
    /\ event_mutex' = NoThread
    /\ Goto(t, "advance_finish")
    /\ UNCHANGED <<traceVars, last_t, consumer_mutex, sinkVars, clockVars, now_max, next_id, countVars>>

\* consumer->finish(meta_events): Trace_to_file::finish calls
\* Consumer::finish (the assertion, consume_events, COMPLETE) and then, if
\* the stream is open, now().  A failed assertion aborts a debug build and
\* is compiled out of a release build.
AdvanceFinish(t) ==
    /\ pc[t] = "advance_finish"
    /\ loc[t].i < Len(loc[t].expired_consumers)
    /\ LET consumer == loc[t].expired_consumers[loc[t].i + 1]
           failed == c_state[consumer] # "EXPIRED"
       IN  /\ finish_calls' = [finish_calls EXCEPT ![consumer] = @ + 1]
           /\ assert_failed' = (assert_failed \/ failed)
           /\ aborted' \in {FALSE, failed}
           /\ written' = [written EXCEPT ![consumer] =
                  consume_events(stream_open[consumer], written[consumer],
                                 loc[t].meta_events)]
           /\ c_state' = [c_state EXCEPT ![consumer] = "COMPLETE"]
           /\ IF stream_open[consumer]
              THEN CallNow(t, "advance_end_of_trace")
              ELSE /\ loc' = [loc EXCEPT ![t].i = loc[t].i + 1]
                   /\ UNCHANGED pc
    /\ UNCHANGED <<traceVars, last_t, mutexVars, c_lifetime, c_expiry,
                   stream_open, handed, clockVars, now_max, next_id,
                   countVars>>

\* a Trace_to_file::finish that leaves the stream open
AdvanceEndOfTraceStaysOpen(t) ==
    /\ pc[t] = "advance_end_of_trace"
    /\ LET consumer == loc[t].expired_consumers[loc[t].i + 1]
       IN  written' = [written EXCEPT ![consumer] =
               written[consumer] \o <<Json(bogus_event(t, loc[t].t)), Closer>>]
    /\ loc' = [loc EXCEPT ![t].i = loc[t].i + 1]
    /\ Goto(t, "advance_finish")
    /\ UNCHANGED <<traceVars, last_t, mutexVars, c_lifetime, c_expiry, c_state,
                   stream_open, handed, finish_calls, assert_failed, aborted,
                   clockVars, now_max, next_id, countVars>>

\* _stream << bogus_event << "\n]\n}\n"; _stream.close();
AdvanceEndOfTrace(t) ==
    /\ pc[t] = "advance_end_of_trace"
    /\ LET consumer == loc[t].expired_consumers[loc[t].i + 1]
       IN  /\ written' = [written EXCEPT ![consumer] =
                  written[consumer] \o <<Json(bogus_event(t, loc[t].t)), Closer>>]
           /\ stream_open' = [stream_open EXCEPT ![consumer] = FALSE]
    /\ loc' = [loc EXCEPT ![t].i = loc[t].i + 1]
    /\ Goto(t, "advance_finish")
    /\ UNCHANGED <<traceVars, last_t, mutexVars, c_lifetime, c_expiry, c_state,
                   handed, finish_calls, assert_failed, aborted, clockVars, now_max, next_id, countVars>>

AdvanceReturn(t) ==
    /\ pc[t] = "advance_finish"
    /\ loc[t].i >= Len(loc[t].expired_consumers)
    /\ consumer_mutex' = NoThread
    /\ Return(t)
    /\ UNCHANGED <<traceVars, last_t, event_mutex, sinkVars, clockVars, now_max,
                   next_id, countVars>>

(***************************************************************************)
(* Trace::shutdown (src/unnamed/part_003 294-303).                         *)
(***************************************************************************)
ShutdownCall(t) ==
    /\ Call(t, "shutdown_lock", DrainLoc("shutdown"))
    /\ UNCHANGED <<traceVars, last_t, mutexVars, sinkVars, clockVars, now_max,
                   next_id, countVars>>

ShutdownLock(t) ==
    /\ pc[t] = "shutdown_lock"
    /\ Lock(consumer_mutex, t)
    /\ consumer_mutex' = t
    /\ Goto(t, "shutdown_expire")
    /\ UNCHANGED <<traceVars, last_t, event_mutex, sinkVars, clockVars, loc, now_max, next_id, countVars>>

\* _consumers[i]->update_expiry(0) for every i, then advance_consumers()
ShutdownExpire(t) ==
    /\ pc[t] = "shutdown_expire"
    /\ c_expiry' = [c \in Sinks |->
           IF c \in Range(consumers) THEN update_expiry(c_lifetime[c], 0)
           ELSE c_expiry[c]]
    /\ consumer_mutex' = NoThread
    /\ Goto(t, "advance_consumers")
    /\ UNCHANGED <<traceVars, last_t, event_mutex, c_lifetime, c_state,
                   stream_open, written, handed, finish_calls, assert_failed,
                   aborted, clockVars, loc, now_max, next_id,
                   countVars>>

(***************************************************************************)
(* Trace::add_consumer (src/unnamed/part_003 305-315).                     *)
(***************************************************************************)

\* if (consumer) { consumer->update_expiry(get_now_msec()); ...
AddConsumerCall(t) ==
    /\ Len(consumers) + Cardinality({u \in Threads : loc[u].op = "add_consumer"})
          < run.max_registered
    /\ \E consumer \in run.sinks \cup {NULL} :
          IF consumer = NULL
          THEN /\ pc[t] = "idle"
               /\ UNCHANGED <<pc, loc, c_expiry>>
          ELSE /\ Call(t, "add_consumer_lock",
                       [IdleLoc EXCEPT !.op = "add_consumer",
                           !.consumer = consumer,
                           !.call_msec = IF run.history THEN msec ELSE 0])
               /\ c_expiry' = [c_expiry EXCEPT ![consumer] =
                      update_expiry(c_lifetime[consumer], msec)]
    /\ UNCHANGED <<traceVars, last_t, mutexVars, c_lifetime, c_state,
                   stream_open, written, handed, finish_calls, assert_failed,
                   aborted, clockVars, now_max, next_id, countVars>>

\* TRACE_START (src/unnamed/part_004 210-212): a Trace_to_file is made and
\* handed to add_consumer, so the sink is one never registered before
TraceStart(t) ==
    /\ \E consumer \in run.sinks :
          /\ c_expiry[consumer] = DISTANT_FUTURE
          /\ Call(t, "add_consumer_lock",
                  [IdleLoc EXCEPT !.op = "add_consumer", !.consumer = consumer])
          /\ c_expiry' = [c_expiry EXCEPT ![consumer] =
                 update_expiry(c_lifetime[consumer], msec)]
    /\ UNCHANGED <<traceVars, last_t, mutexVars, c_lifetime, c_state,
                   stream_open, written, handed, finish_calls, assert_failed,
                   aborted, clockVars, now_max, next_id, countVars>>

AddConsumerLock(t) ==
    /\ pc[t] = "add_consumer_lock"
    /\ Lock(consumer_mutex, t)
    /\ consumer_mutex' = t
    /\ Goto(t, "add_consumer_push")
    /\ UNCHANGED <<traceVars, last_t, event_mutex, sinkVars, clockVars, loc, now_max, next_id, countVars>>

\* _consumers.push_back(consumer);
AddConsumerPush(t) ==
    /\ pc[t] = "add_consumer_push"
    /\ consumers' = Append(consumers, loc[t].consumer)
    /\ since' = IF run.since
                THEN [since EXCEPT ![loc[t].consumer] = next_id]
                ELSE since
    /\ Goto(t, "add_consumer_enable")
    /\ UNCHANGED <<enabled, events, arg_lists, meta_events, last_t, mutexVars,
                   sinkVars, clockVars, loc, now_max, next_id,
                   run, scopes, macroVars>>

\* if (!_enabled.load()) _enabled = true;
AddConsumerEnable(t) ==
    /\ pc[t] = "add_consumer_enable"
    /\ enabled' = TRUE
    /\ consumer_mutex' = NoThread
    /\ Return(t)
    /\ UNCHANGED <<consumers, events, arg_lists, meta_events, last_t,
                   event_mutex, sinkVars, clockVars, now_max, next_id,
                   countVars>>

(***************************************************************************)
(* Trace::remove_consumer (src/unnamed/part_003 324-346).                  *)
(***************************************************************************)
\* the loop that removes every occurrence, moving the last element into
\* the place of a removed one
RECURSIVE remove_loop(_, _, _)
remove_loop(cs, consumer, i) ==
    IF i >= Len(cs) THEN cs
    ELSE IF consumer = cs[i + 1]
         THEN LET last_index == Len(cs) - 1
                  moved == IF i # last_index
                           THEN [cs EXCEPT ![i + 1] = cs[last_index + 1]]
                           ELSE cs
              IN  remove_loop(SubSeq(moved, 1, last_index), consumer,
                              IF i # last_index THEN i ELSE i + 1)
         ELSE remove_loop(cs, consumer, i + 1)

RemoveConsumerCall(t) ==
    /\ \E consumer \in run.sinks :
          Call(t, "remove_consumer_lock",
               [IdleLoc EXCEPT !.op = "remove_consumer", !.consumer = consumer,
                   !.registered = IF run.history THEN consumers ELSE <<>>])
    /\ UNCHANGED <<traceVars, last_t, mutexVars, sinkVars, clockVars, now_max,
                   next_id, countVars>>

RemoveConsumerLock(t) ==
    /\ pc[t] = "remove_consumer_lock"
    /\ Lock(consumer_mutex, t)
    /\ consumer_mutex' = t
    /\ Goto(t, "remove_consumer_loop")
    /\ UNCHANGED <<traceVars, last_t, event_mutex, sinkVars, clockVars, loc, now_max, next_id, countVars>>

\* a remove_consumer that stops at the first occurrence
RemoveConsumerLoopFirst(t) ==
    /\ pc[t] = "remove_consumer_loop"
    /\ consumers' =
          IF loc[t].consumer \in Range(consumers)
          THEN LET k == CHOOSE k \in 1..Len(consumers) :
                           /\ consumers[k] = loc[t].consumer
                           /\ \A j \in 1..(k - 1) : consumers[j] # loc[t].consumer
               IN  SubSeq(consumers, 1, k - 1)
                      \o SubSeq(consumers, k + 1, Len(consumers))
          ELSE consumers
    /\ Goto(t, "remove_consumer_disable")
    /\ UNCHANGED <<enabled, events, arg_lists, meta_events, last_t, mutexVars,
                   sinkVars, clockVars, loc, now_max, next_id,
                   countVars>>

RemoveConsumerLoop(t) ==
    /\ pc[t] = "remove_consumer_loop"
    /\ consumers' = remove_loop(consumers, loc[t].consumer, 0)
    /\ Goto(t, "remove_consumer_disable")
    /\ UNCHANGED <<enabled, events, arg_lists, meta_events, last_t, mutexVars,
                   sinkVars, clockVars, loc, now_max, next_id,
                   countVars>>

\* a remove_consumer that never clears _enabled
RemoveConsumerStaysEnabled(t) ==
    /\ pc[t] = "remove_consumer_disable"
    /\ consumer_mutex' = NoThread
    /\ Return(t)
    /\ UNCHANGED <<traceVars, last_t, event_mutex, sinkVars, clockVars, now_max,
                   next_id, countVars>>

\* if (_consumers.size() == 0) _enabled = false;
RemoveConsumerDisable(t) ==
    /\ pc[t] = "remove_consumer_disable"
    /\ enabled' = IF Len(consumers) = 0 THEN FALSE ELSE enabled
    /\ consumer_mutex' = NoThread
    /\ Return(t)
    /\ UNCHANGED <<consumers, events, arg_lists, meta_events, last_t,
                   event_mutex, sinkVars, clockVars, now_max, next_id,
                   countVars>>

(***************************************************************************)
(* TRACE_STOP_EARLY (src/unnamed/part_004 217-218): update_expiry(0) on a  *)
(* sink, without a lock.                                                   *)
(***************************************************************************)
\* an early stop that expires the sink at once
StopEarlyExpires(t) ==
    /\ pc[t] = "idle"
    /\ \E consumer \in Range(consumers) :
          /\ c_expiry' = [c_expiry EXCEPT ![consumer] =
                           update_expiry(c_lifetime[consumer], 0)]
          /\ c_state' = [c_state EXCEPT ![consumer] = "EXPIRED"]
    /\ UNCHANGED <<traceVars, last_t, mutexVars, c_lifetime,
                   stream_open, written, handed, finish_calls, assert_failed,
                   aborted, clockVars, pc, loc, now_max, next_id,
                   countVars>>

StopEarly(t) ==
    /\ pc[t] = "idle"
    /\ \E consumer \in Range(consumers) :
          c_expiry' = [c_expiry EXCEPT ![consumer] =
                          update_expiry(c_lifetime[consumer], 0)]
    /\ UNCHANGED <<traceVars, last_t, mutexVars, c_lifetime, c_state,
                   stream_open, written, handed, finish_calls, assert_failed,
                   aborted, clockVars, pc, loc, now_max, next_id,
                   countVars>>

(***************************************************************************)
(* The Consumer that can be started again (src/unnamed/part_002 67-136),   *)
(* the base of Default_consumer: State _state { State::COMPLETE } at       *)
(* construction.                                                           *)
(***************************************************************************)
\* the lifetimes start() is called with: the default 0, one below and one
\* above MAX_TRACE_CONSUMER_LIFETIME
StartLifetimes == {0, SleepMsec, 2 * MAX_TRACE_CONSUMER_LIFETIME}

\* void expire() { if (_state == State::ACTIVE) { _expiry = 0;
\*                  _state == State::EXPIRED; } }
\* the second statement compares and assigns nothing
expire(state, expiry) ==
    IF state = "ACTIVE" THEN [state |-> state, expiry |-> 0]
    ELSE [state |-> state, expiry |-> expiry]

is_active(state) == state = "ACTIVE"

\* virtual void start(uint64_t lifetime = 0)
ConsumerStartCall(t) ==
    /\ \E consumer \in run.sinks : \E lifetime \in StartLifetimes :
          Call(t, "consumer_start",
               [IdleLoc EXCEPT !.op = "start", !.consumer = consumer,
                               !.lifetime = lifetime])
    /\ UNCHANGED <<traceVars, last_t, mutexVars, sinkVars, clockVars, now_max,
                   next_id, countVars>>

\* if (_state != State::ACTIVE) { if (lifetime > 0) set_lifetime(lifetime);
\*     _expiry = get_now_msec() + _lifetime; _state = State::ACTIVE; }
ConsumerStart(t) ==
    /\ pc[t] = "consumer_start"
    /\ LET consumer == loc[t].consumer
           lifetime == IF loc[t].lifetime > 0 THEN ClampLifetime(loc[t].lifetime)
                       ELSE c_lifetime[consumer]
       IN  IF c_state[consumer] # "ACTIVE"
           THEN /\ c_lifetime' = [c_lifetime EXCEPT ![consumer] = lifetime]
                /\ c_expiry' = [c_expiry EXCEPT ![consumer] = msec + lifetime]
                /\ c_state' = [c_state EXCEPT ![consumer] = "ACTIVE"]
           ELSE UNCHANGED <<c_lifetime, c_expiry, c_state>>
    /\ Return(t)
    /\ UNCHANGED <<traceVars, last_t, mutexVars, stream_open, written, handed,
                   finish_calls, assert_failed, aborted, clockVars, now_max,
                   next_id, countVars>>

\* virtual void stop() { expire(); }
ConsumerStopCall(t) ==
    /\ \E consumer \in run.sinks :
          Call(t, "consumer_stop",
               [IdleLoc EXCEPT !.op = "stop", !.consumer = consumer])
    /\ UNCHANGED <<traceVars, last_t, mutexVars, sinkVars, clockVars, now_max,
                   next_id, countVars>>

ConsumerStop(t) ==
    /\ pc[t] = "consumer_stop"
    /\ LET consumer == loc[t].consumer
           after == expire(c_state[consumer], c_expiry[consumer])
       IN  /\ c_state' = [c_state EXCEPT ![consumer] = after.state]
           /\ c_expiry' = [c_expiry EXCEPT ![consumer] = after.expiry]
    /\ Return(t)
    /\ UNCHANGED <<traceVars, last_t, mutexVars, c_lifetime, stream_open,
                   written, handed, finish_calls, assert_failed, aborted,
                   clockVars, now_max, next_id, countVars>>

\* check_expiry(get_now_msec()), as Trace calls it after consume_events
ConsumerCheckExpiry(t) ==
    /\ pc[t] = "idle"
    /\ \E consumer \in run.sinks :
          /\ c_state[consumer] = "ACTIVE"
          /\ c_state' = [c_state EXCEPT ![consumer] =
                 check_expiry(c_state[consumer], c_expiry[consumer], msec)]
    /\ UNCHANGED <<traceVars, last_t, mutexVars, c_lifetime, c_expiry,
                   stream_open, written, handed, finish_calls, assert_failed,
                   aborted, clockVars, pc, loc, now_max, next_id, countVars>>

\* finish(meta_events), as Trace calls it on a sink that has expired:
\* _state = State::COMPLETE;
ConsumerFinish(t) ==
    /\ pc[t] = "idle"
    /\ \E consumer \in run.sinks :
          /\ is_expired(c_state[consumer])
          /\ c_state' = [c_state EXCEPT ![consumer] = "COMPLETE"]
    /\ UNCHANGED <<traceVars, last_t, mutexVars, c_lifetime, c_expiry,
                   stream_open, written, handed, finish_calls, assert_failed,
                   aborted, clockVars, pc, loc, now_max, next_id, countVars>>

(***************************************************************************)
(* The macros of the application (src/unnamed/part_004 205-227), used by   *)
(* one thread.  g_trace_consumer_ptr owns the Trace_to_file: assigning or  *)
(* resetting it runs the destructor of the sink it held.                   *)
(***************************************************************************)
\* what is left of the sinks destroyed once the pointer lets go of its sink
Release(ptr) == destroyed \cup ({ptr} \ {NULL})

\* TRACE_START: g_trace_consumer_ptr = std::make_unique<Trace_to_file>(...);
\* add_consumer(g_trace_consumer_ptr.get());  The sink is a new one.
MacroStart(t) ==
    /\ macro = NoMacro
    /\ \E consumer \in run.sinks :
          /\ c_expiry[consumer] = DISTANT_FUTURE
          /\ consumer \notin destroyed
          /\ Call(t, "add_consumer_lock",
                  [IdleLoc EXCEPT !.op = "add_consumer", !.consumer = consumer])
          /\ c_expiry' = [c_expiry EXCEPT ![consumer] =
                 update_expiry(c_lifetime[consumer], msec)]
          /\ g_trace_consumer_ptr' = consumer
    /\ destroyed' = Release(g_trace_consumer_ptr)
    /\ UNCHANGED <<traceVars, last_t, mutexVars, c_lifetime, c_state,
                   stream_open, written, handed, finish_calls, assert_failed,
                   aborted, clockVars, now_max, next_id, run, since, macro,
                   scopes>>

\* TRACE_STOP_EARLY: if (g_trace_consumer_ptr)
\*                       g_trace_consumer_ptr->update_expiry(0);
MacroStopEarly(t) ==
    /\ macro = NoMacro
    /\ pc[t] = "idle"
    /\ g_trace_consumer_ptr # NULL
    /\ c_expiry' = [c_expiry EXCEPT ![g_trace_consumer_ptr] =
                       update_expiry(c_lifetime[g_trace_consumer_ptr], 0)]
    /\ UNCHANGED <<traceVars, last_t, mutexVars, c_lifetime, c_state,
                   stream_open, written, handed, finish_calls, assert_failed,
                   aborted, clockVars, pc, loc, now_max, next_id,
                   countVars>>

\* TRACE_MAINLOOP, first statement: advance_consumers();
MacroMainloop(t) ==
    /\ macro = NoMacro
    /\ Call(t, "advance_consumers", DrainLoc("advance_consumers"))
    /\ macro' = "TRACE_MAINLOOP"
    /\ UNCHANGED <<traceVars, last_t, mutexVars, sinkVars, clockVars, now_max,
                   next_id, run, since, g_trace_consumer_ptr, destroyed,
                   scopes>>

\* TRACE_MAINLOOP, second statement: if (g_trace_consumer_ptr &&
\*     g_trace_consumer_ptr->is_complete()) g_trace_consumer_ptr.reset();
MacroMainloopReset(t) ==
    /\ macro = "TRACE_MAINLOOP"
    /\ pc[t] = "idle"
    /\ macro' = NoMacro
    /\ IF g_trace_consumer_ptr # NULL /\ is_complete(c_state[g_trace_consumer_ptr])
       THEN /\ destroyed' = Release(g_trace_consumer_ptr)
            /\ g_trace_consumer_ptr' = NULL
       ELSE UNCHANGED <<g_trace_consumer_ptr, destroyed>>
    /\ UNCHANGED <<traceVars, last_t, mutexVars, sinkVars, clockVars, pc, loc,
                   now_max, next_id, run, since, scopes>>

\* TRACE_SHUTDOWN, first statement: shutdown();
MacroShutdown(t) ==
    /\ macro = NoMacro
    /\ Call(t, "shutdown_lock", DrainLoc("shutdown"))
    /\ macro' = "TRACE_SHUTDOWN"
    /\ UNCHANGED <<traceVars, last_t, mutexVars, sinkVars, clockVars, now_max,
                   next_id, run, since, g_trace_consumer_ptr, destroyed,
                   scopes>>

\* TRACE_SHUTDOWN, second statement:
\* if (g_trace_consumer_ptr) g_trace_consumer_ptr.reset();
MacroShutdownReset(t) ==
    /\ macro = "TRACE_SHUTDOWN"
    /\ pc[t] = "idle"
    /\ macro' = NoMacro
    /\ destroyed' = Release(g_trace_consumer_ptr)
    /\ g_trace_consumer_ptr' = NULL
    /\ UNCHANGED <<traceVars, last_t, mutexVars, sinkVars, clockVars, pc, loc,
                   now_max, next_id, run, since, scopes>>

\* _consumers[i] is a sink whose destructor has run: the call through the
\* pointer is undefined.  The process dies here, or goes on as if the
\* object were still there.
UseAfterFree(t) ==
    /\ \/ pc[t] = "advance_loop" /\ loc[t].i < Len(consumers)
          /\ consumers[loc[t].i + 1] \in destroyed
       \/ pc[t] = "shutdown_expire" /\ Range(consumers) \cap destroyed # {}
    /\ aborted' = TRUE
    /\ UNCHANGED <<traceVars, last_t, mutexVars, c_lifetime, c_expiry, c_state,
                   stream_open, written, handed, finish_calls, assert_failed,
                   clockVars, pc, loc, now_max, next_id, countVars>>

(***************************************************************************)
(* Time passes: the application sleeps SleepMsec milliseconds.             *)
(***************************************************************************)
Sleep ==
    /\ msec < StartMsec + run.max_sleeps * SleepMsec
    /\ msec' = msec + SleepMsec
    /\ usec' = usec + SleepMsec * 1000
    /\ UNCHANGED <<traceVars, last_t, mutexVars, sinkVars, pc, loc,
                   now_max, next_id, countVars>>

(***************************************************************************)
(* The specification.                                                      *)
(***************************************************************************)
\* the sinks are constructed, nothing is registered, no call is under way
Start ==
    /\ enabled = FALSE
    /\ consumers = <<>>
    /\ events = <<>>
    /\ arg_lists = <<>>
    /\ meta_events = <<>>
    /\ last_t = 0
    /\ event_mutex = NoThread
    /\ consumer_mutex = NoThread
    /\ c_lifetime = [c \in Sinks |-> ClampLifetime(SinkLifetime(c))]
    /\ c_expiry = [c \in Sinks |-> DISTANT_FUTURE]
    /\ c_state = [c \in Sinks |-> IF run.restartable THEN "COMPLETE"
                                   ELSE "ACTIVE"]
    /\ stream_open = [c \in Sinks |-> c \notin run.unopened]
    /\ written = [c \in Sinks |-> TraceToFile(c \notin run.unopened)]
    /\ msec = StartMsec
    /\ usec = 0
    /\ pc = [t \in Threads |-> "idle"]
    /\ loc = [t \in Threads |-> IdleLoc]
    /\ handed = [c \in Sinks |-> <<>>]
    /\ finish_calls = [c \in Sinks |-> 0]
    /\ assert_failed = FALSE
    /\ aborted = FALSE
    /\ now_max = 0
    /\ next_id = 1
    /\ scopes = [t \in Threads |-> <<>>]
    /\ since = [c \in Sinks |-> 0]
    /\ g_trace_consumer_ptr = NULL
    /\ destroyed = {}
    /\ macro = NoMacro

\* a run: its bounds, the sinks the application registers and removes, and
\* whether the calls keep the history the properties of the run read; then
\* what only some runs have: the phases add_event is called with besides
\* DurationBegin, the name ids it is called with besides CTX_0, the depth
\* Context objects nest to and the arguments one is given, whether since
\* is kept, whether add_event_with_args is given an empty vector, whether
\* the sinks are of the Consumer class that can be started again, the sinks
\* whose file could not be opened and the sinks whose consume_events throws
Bounds(e, m, r, sl, sinks, history) ==
    [max_events |-> e, max_meta |-> m, max_registered |-> r, max_sleeps |-> sl,
     sinks |-> sinks, history |-> history, phases |-> {DurationBegin},
     names |-> {CTX_0}, max_depth |-> 0, max_args |-> 0, since |-> FALSE,
     empty_args |-> {FALSE}, restartable |-> FALSE, unopened |-> {},
     throwing |-> {}]

AddEvent(t) ==
    \/ AddEventCall(t) \/ AddEventEnabled(t) \/ AddEventLock(t) \/ AddEventPush(t)

AddEventWithArgs(t) ==
    \/ AddEventWithArgsCall(t) \/ AddEventWithArgsEnabled(t)
    \/ AddEventWithArgsLock(t) \/ AddEventWithArgsPush(t)

SetCounter(t) ==
    \/ SetCounterCall(t) \/ SetCounterEnabled(t) \/ SetCounterLock(t)
    \/ SetCounterPush(t)

AddMetaEvent(t) ==
    \/ AddMetaEventCall(t) \/ AddMetaEventLock(t) \/ AddMetaEventPush(t)

AddMetaEventInt(t) ==
    \/ AddMetaEventIntCall(t) \/ AddMetaEventIntLock(t)
    \/ AddMetaEventIntPush(t)

Context(t) ==
    \/ ContextCall(t) \/ ContextCtor(t) \/ ContextEnd(t) \/ ContextDtor(t)

Now(t) == NowLoad(t) \/ NowStore(t)

AdvanceConsumers(t) ==
    \/ AdvanceConsumersCall(t) \/ AdvanceEventsEmpty(t) \/ AdvanceLockEvents(t)
    \/ AdvanceSwap(t) \/ AdvanceConsumersEmpty(t) \/ AdvanceLockConsumers(t)
    \/ AdvanceLoop(t) \/ AdvanceLoopEnd(t) \/ AdvanceLockMeta(t)
    \/ AdvanceCopyMeta(t) \/ AdvanceFinish(t) \/ AdvanceEndOfTrace(t)
    \/ AdvanceReturn(t)

Shutdown(t) == ShutdownCall(t) \/ ShutdownLock(t) \/ ShutdownExpire(t)

AddConsumer(t) ==
    \/ AddConsumerCall(t) \/ AddConsumerLock(t) \/ AddConsumerPush(t)
    \/ AddConsumerEnable(t)

StartTrace(t) ==
    \/ TraceStart(t) \/ AddConsumerLock(t) \/ AddConsumerPush(t)
    \/ AddConsumerEnable(t)

RemoveConsumer(t) ==
    \/ RemoveConsumerCall(t) \/ RemoveConsumerLock(t) \/ RemoveConsumerLoop(t)
    \/ RemoveConsumerDisable(t)

\* Spec: a producer records while the main loop drains and shuts down and a
\* control thread registers and removes sinks
Producer == "p1"

Init ==
    /\ run = Bounds(MaxEvents, MaxMeta, MaxRegistered, 0, {"c1"}, FALSE)
    /\ Start

Next ==
    /\ ~aborted
    /\ \/ AddEvent(Producer) \/ AddEventWithArgs(Producer)
       \/ SetCounter(Producer) \/ AddMetaEvent(Producer)
       \/ Now(Producer) \/ Now(Main)
       \/ AdvanceConsumers(Main) \/ Shutdown(Main)
       \/ AddConsumer(Ctl) \/ RemoveConsumer(Ctl)

Spec == Init /\ [][Next]_vars

\* SpecSeq: one thread makes every call, one call after the other
InitSeq ==
    /\ run = Bounds(SeqMaxEvents, 0, SeqMaxRegistered, SeqMaxSleeps, Sinks, TRUE)
    /\ Start

NextSeq ==
    /\ ~aborted
    /\ \/ AddEvent(Main) \/ Now(Main)
       \/ AdvanceConsumers(Main) \/ Shutdown(Main)
       \/ AddConsumer(Main) \/ RemoveConsumer(Main) \/ StopEarly(Main)
       \/ Sleep

SpecSeq == InitSeq /\ [][NextSeq]_vars

\* SpecRun: two producers record, and so call now(), at the same time,
\* while the main loop registers a sink, drains and shuts down
InitRun ==
    /\ run = Bounds(RunMaxEvents, 0, RunMaxRegistered, RunMaxSleeps, Sinks, TRUE)
    /\ Start

NextRun ==
    /\ ~aborted
    /\ \/ \E t \in Producers : AddEvent(t) \/ Now(t)
       \/ AddConsumer(Main) \/ AdvanceConsumers(Main) \/ Shutdown(Main)
       \/ Now(Main)
       \/ Sleep

SpecRun == InitRun /\ [][NextRun]_vars

\* SpecScope: test_000 with every order of its calls.  One thread starts a
\* trace to one sink, opens and closes nested scopes, records counters and
\* events, drains and shuts down
InitScope ==
    /\ run = [Bounds(ScopeMaxEvents, 0, 0, 0, {"c1"}, FALSE) EXCEPT
                 !.max_depth = ScopeMaxDepth]
    /\ Start

NextScope ==
    /\ ~aborted
    /\ \/ Context(Main) \/ SetCounter(Main) \/ AddEvent(Main) \/ Now(Main)
       \/ StartTrace(Main) \/ AdvanceConsumers(Main) \/ Shutdown(Main)

SpecScope == InitScope /\ [][NextScope]_vars

\* SpecArgs: one thread starts a trace to one sink, opens nested scopes,
\* gives them arguments and closes them, records events with and without
\* arguments, drains and shuts down
InitArgs ==
    /\ run = [Bounds(ArgsMaxEvents, 0, 0, 0, {"c1"}, FALSE) EXCEPT
                 !.max_depth = ArgsMaxDepth, !.max_args = ArgsMaxArgs]
    /\ Start

NextArgs ==
    /\ ~aborted
    /\ \/ Context(Main) \/ ContextAddArg(Main) \/ AddEvent(Main)
       \/ AddEventWithArgs(Main) \/ Now(Main)
       \/ StartTrace(Main) \/ AdvanceConsumers(Main) \/ Shutdown(Main)

SpecArgs == InitArgs /\ [][NextArgs]_vars

\* SpecFile: one thread starts traces to two files, the second of which
\* may be one that could not be opened, records events and meta-events of
\* both forms, drains and shuts down
InitFile ==
    /\ \E unopened \in {{}, {"c2"}} :
          run = [Bounds(FileMaxEvents, FileMaxMeta, 0, 0, Sinks, FALSE)
                    EXCEPT !.unopened = unopened]
    /\ Start

NextFile ==
    /\ ~aborted
    /\ \/ AddEvent(Main) \/ AddMetaEvent(Main) \/ AddMetaEventInt(Main)
       \/ Now(Main) \/ StartTrace(Main) \/ AdvanceConsumers(Main)
       \/ Shutdown(Main)

SpecFile == InitFile /\ [][NextFile]_vars

\* SpecPhase: one thread starts a trace to a file and records events of
\* several phases, one of them a phase the enum lists as unsupported, with
\* and without arguments, and counters; it drains and shuts down
InitPhase ==
    /\ run = [Bounds(PhaseMaxEvents, 0, 0, 0, {"c1"}, FALSE) EXCEPT
                 !.phases = {DurationBegin, Complete, Instant},
                 !.names = {CTX_0, UNREGISTERED}]
    /\ Start

NextPhase ==
    /\ ~aborted
    /\ \/ AddEvent(Main) \/ AddEventWithArgs(Main) \/ SetCounter(Main)
       \/ Now(Main) \/ StartTrace(Main) \/ AdvanceConsumers(Main)
       \/ Shutdown(Main)

SpecPhase == InitPhase /\ [][NextPhase]_vars

\* SpecThrow: one thread starts traces to two sinks, the first of which
\* is a Consumer whose consume_events throws, records, drains and shuts down
InitThrow ==
    /\ run = [Bounds(ThrowMaxEvents, 0, 0, 0, Sinks, TRUE) EXCEPT
                 !.throwing = {"c1"}]
    /\ Start

NextThrow ==
    /\ ~aborted
    /\ \/ AddEvent(Main) \/ Now(Main) \/ StartTrace(Main)
       \/ AdvanceConsumers(Main) \/ Shutdown(Main)

SpecThrow == InitThrow /\ [][NextThrow]_vars

\* SpecSet: one thread registers and removes the two sinks, stops them
\* early, records and drains
InitSet ==
    /\ run = Bounds(SetMaxEvents, 0, SetMaxRegistered, 0, Sinks, TRUE)
    /\ Start

NextSet ==
    /\ ~aborted
    /\ \/ AddEvent(Main) \/ Now(Main) \/ AdvanceConsumers(Main)
       \/ AddConsumer(Main) \/ RemoveConsumer(Main) \/ StopEarly(Main)

SpecSet == InitSet /\ [][NextSet]_vars

\* SpecRemove: one thread registers the two sinks, up to three times in
\* all, removes them and records
InitRemove ==
    /\ run = Bounds(RemoveMaxEvents, 0, RemoveMaxRegistered, 0, Sinks, TRUE)
    /\ Start

NextRemove ==
    /\ ~aborted
    /\ \/ AddConsumer(Main) \/ RemoveConsumer(Main)
       \/ AddEvent(Main) \/ Now(Main)

SpecRemove == InitRemove /\ [][NextRemove]_vars

\* SpecDrop: one thread registers one sink at a time, removes it, records
\* events with and without arguments and drains
InitDrop ==
    /\ run = [Bounds(DropMaxEvents, 0, DropMaxRegistered, 0, Sinks, TRUE) EXCEPT
                 !.since = TRUE]
    /\ Start

NextDrop ==
    /\ ~aborted
    /\ \/ AddConsumer(Main) \/ RemoveConsumer(Main)
       \/ AddEvent(Main) \/ AddEventWithArgs(Main) \/ Now(Main)
       \/ AdvanceConsumers(Main)

SpecDrop == InitDrop /\ [][NextDrop]_vars

\* SpecPair: two producers record events with and without arguments and
\* counters, while the main loop starts a trace and drains
InitPair ==
    /\ run = Bounds(PairMaxEvents, 0, 0, 0, {"c1"}, FALSE)
    /\ Start

NextPair ==
    /\ ~aborted
    /\ \/ \E t \in Producers :
             AddEventWithArgs(t) \/ SetCounter(t) \/ AddEvent(t) \/ Now(t)
       \/ StartTrace(Main) \/ AdvanceConsumers(Main) \/ Now(Main)

SpecPair == InitPair /\ [][NextPair]_vars

\* SpecEmpty: one thread starts a trace, records events with one argument
\* and with an empty vector of arguments, drains and shuts down
InitEmpty ==
    /\ run = [Bounds(EmptyMaxEvents, 0, 0, 0, {"c1"}, FALSE) EXCEPT
                 !.empty_args = BOOLEAN]
    /\ Start

NextEmpty ==
    /\ ~aborted
    /\ \/ AddEventWithArgs(Main) \/ Now(Main) \/ StartTrace(Main)
       \/ AdvanceConsumers(Main) \/ Shutdown(Main)

SpecEmpty == InitEmpty /\ [][NextEmpty]_vars

\* SpecClock: the main thread starts a trace; two producers open scopes,
\* give them arguments and close them, from the first microsecond of the
\* process on.  Every event is the event of a scope.
InitClock ==
    /\ run = [Bounds(ClockMaxEvents, 0, 0, 0, {"c1"}, FALSE) EXCEPT
                 !.max_depth = 1, !.max_args = 1]
    /\ Start

NextClock ==
    /\ ~aborted
    /\ \/ \E t \in Producers :
             \/ Context(t) \/ ContextAddArg(t) \/ Now(t)
             \/ AddEventEnabled(t) \/ AddEventLock(t) \/ AddEventPush(t)
             \/ AddEventWithArgsEnabled(t) \/ AddEventWithArgsLock(t)
             \/ AddEventWithArgsPush(t)
       \/ StartTrace(Main) \/ Now(Main)

SpecClock == InitClock /\ [][NextClock]_vars

\* SpecMacro: one thread uses TRACE_START, TRACE_STOP_EARLY, TRACE_MAINLOOP
\* and TRACE_SHUTDOWN in any order, records events in between, and time
\* passes
Macros(t) ==
    \/ MacroStart(t) \/ AddConsumerLock(t) \/ AddConsumerPush(t)
    \/ AddConsumerEnable(t)
    \/ MacroStopEarly(t)
    \/ MacroMainloop(t) \/ MacroMainloopReset(t)
    \/ MacroShutdown(t) \/ MacroShutdownReset(t)
    \/ ShutdownLock(t) \/ ShutdownExpire(t)
    \/ AdvanceEventsEmpty(t) \/ AdvanceLockEvents(t)
    \/ AdvanceSwap(t) \/ AdvanceConsumersEmpty(t) \/ AdvanceLockConsumers(t)
    \/ AdvanceLoop(t) \/ AdvanceLoopEnd(t) \/ AdvanceLockMeta(t)
    \/ AdvanceCopyMeta(t) \/ AdvanceFinish(t) \/ AdvanceEndOfTrace(t)
    \/ AdvanceReturn(t)
    \/ UseAfterFree(t)

InitMacro ==
    /\ run = Bounds(MacroMaxEvents, 0, 0, MacroMaxSleeps, Sinks, FALSE)
    /\ Start

NextMacro ==
    /\ ~aborted
    /\ \/ Macros(Main) \/ AddEvent(Main) \/ Now(Main)
       \/ Sleep

SpecMacro == InitMacro /\ [][NextMacro]_vars

\* SpecRestart: one thread starts and stops two sinks of the Consumer class
\* that can be started again, Trace checks their expiry and finishes them,
\* and time passes
InitRestart ==
    /\ run = [Bounds(0, 0, 0, RestartMaxSleeps, Sinks, FALSE) EXCEPT
                 !.restartable = TRUE]
    /\ Start

NextRestart ==
    /\ ~aborted
    /\ \/ ConsumerStartCall(Main) \/ ConsumerStart(Main)
       \/ ConsumerStopCall(Main) \/ ConsumerStop(Main)
       \/ ConsumerCheckExpiry(Main) \/ ConsumerFinish(Main)
       \/ Sleep

SpecRestart == InitRestart /\ [][NextRestart]_vars

\* SpecDrain: a producer records while the main loop starts a trace and
\* drains
InitDrain ==
    /\ run = Bounds(DrainMaxEvents, 0, 0, 0, {"c1"}, FALSE)
    /\ Start

NextDrain ==
    /\ ~aborted
    /\ \/ AddEvent(Producer) \/ Now(Producer)
       \/ StartTrace(Main) \/ AdvanceConsumers(Main) \/ Now(Main)

SpecDrain == InitDrain /\ [][NextDrain]_vars

\* SpecLive: the main loop starts a trace to the sink of the short lifetime
\* and calls advance_consumers again and again, a producer records, time
\* passes.  The main loop always takes its next step, a producer finishes
\* the call it is in, and the time that can pass does.
InitLive ==
    /\ run = [Bounds(LiveMaxEvents, 0, 0, LiveMaxSleeps, {"c1"}, FALSE) EXCEPT
                 !.since = TRUE]
    /\ Start

NextLive ==
    /\ ~aborted
    /\ \/ AddEvent(Producer) \/ Now(Producer)
       \/ StartTrace(Main) \/ AdvanceConsumers(Main) \/ Now(Main)
       \/ Sleep

MainLoop == AdvanceConsumers(Main) \/ Now(Main)
CallInProgress(t) == pc[t] # "idle" /\ (AddEvent(t) \/ Now(t))

SpecLive ==
    /\ InitLive /\ [][NextLive]_vars
    /\ WF_vars(MainLoop)
    /\ WF_vars(CallInProgress(Producer))
    /\ WF_vars(Sleep)

(***************************************************************************)
(* Properties.                                                             *)
(***************************************************************************)
\* a call that registers, removes or drains is under way
SinkCalls == {"add_consumer", "remove_consumer", "advance_consumers", "shutdown"}
Quiescent == \A t \in Threads : loc[t].op \notin SinkCalls

\* thread t returns from the call op in this step
Returns(t, op) == loc[t].op = op /\ pc[t] # "idle" /\ pc'[t] = "idle"

\* the entries of the JSON array a stream holds, and the sentinels among them
IsEntry(x) == x.tok = "json"
IsSentinel(x) ==
    /\ x.tok = "json"
    /\ Len(x.json) > 0
    /\ x.json[1] = <<"name", Str("end_of_trace")>>
Entries(stream) == Cardinality({k \in 1..Len(stream) : IsEntry(stream[k])})
Sentinels(stream) == Cardinality({k \in 1..Len(stream) : IsSentinel(stream[k])})

\* a field of a JSON string, and the entries that are events
HasField(j, key) == \E k \in 1..Len(j) : j[k][1] = key
Field(j, key) == j[CHOOSE k \in 1..Len(j) : j[k][1] = key][2]
IsMeta(x) == IsEntry(x) /\ Field(x.json, "ph") = Str(Metadata)
IsEvent(x) == IsEntry(x) /\ ~IsSentinel(x) /\ ~IsMeta(x)

\* the stream holds one event and then the sentinel that closes the array
EventThenSentinel(stream) ==
    /\ Len(stream) = 5
    /\ stream[1] = Opener
    /\ IsEntry(stream[2]) /\ ~IsSentinel(stream[2])
    /\ stream[3] = Separator
    /\ IsSentinel(stream[4])
    /\ stream[5] = Closer

\* where a thread asks for a mutex, and the thread that holds the mutex it
\* is kept waiting for (NoThread if it is not waiting)
EventLockPcs == {"add_event_lock", "add_event_with_args_lock",
                 "set_counter_lock", "advance_lock_events", "advance_lock_meta"}
ConsumerLockPcs == {"advance_lock_consumers", "shutdown_lock",
                    "add_consumer_lock", "remove_consumer_lock"}
RequestsEvent(t) ==
    \/ pc[t] \in EventLockPcs
    \/ pc[t] = "add_meta_event" /\ arg_name(loc[t].ev.ph) # ""
    \/ pc[t] = "add_meta_event_int" /\ sort_index(loc[t].ev.ph)
RequestsConsumer(t) == pc[t] \in ConsumerLockPcs
WaitsFor(t) ==
    IF RequestsEvent(t) THEN event_mutex
    ELSE IF RequestsConsumer(t) THEN consumer_mutex
    ELSE NoThread

\* C1: whenever no add_consumer, remove_consumer, advance_consumers or
\* shutdown call is in progress, _enabled is true if and only if _consumers
\* is not empty.
EnabledIffRegistered == Quiescent => (enabled <=> consumers # <<>>)

\* capture was disabled by the expiry of the last sink and enabled again by
\* a registration
EnabledAgainAfterExpiry ==
    /\ Quiescent
    /\ enabled
    /\ consumers # <<>>
    /\ \E c \in Sinks : finish_calls[c] > 0

\* C2: finish is called on a sink at most once, and every call of finish
\* finds the sink EXPIRED (the assertion in Consumer::finish never fails).
FinishOnceAndExpired ==
    /\ \A c \in Sinks : finish_calls[c] <= 1
    /\ ~assert_failed

\* C3: the state of a sink only changes from ACTIVE to EXPIRED and from
\* EXPIRED to COMPLETE; in particular never from COMPLETE to EXPIRED.
StateOnlyForward ==
    [][\A c \in Sinks :
          \/ c_state'[c] = c_state[c]
          \/ c_state[c] = "ACTIVE" /\ c_state'[c] = "EXPIRED"
          \/ c_state[c] = "EXPIRED" /\ c_state'[c] = "COMPLETE"]_vars

\* C4: when shutdown returns, no sink that was registered when it was called
\* is ACTIVE and _consumers is empty, whatever the event buffer held.
ShutdownLeavesNoActiveSink ==
    [][\A t \in Threads :
          Returns(t, "shutdown") =>
              /\ consumers' = <<>>
              /\ \A c \in Range(loc[t].registered) : c_state'[c] # "ACTIVE"]_vars

\* C5: a sink is registered, one event is recorded and handed to it by a
\* first drain that leaves it ACTIVE, its lifetime elapses and nothing more
\* is recorded: the next advance_consumers leaves the sink COMPLETE and not
\* registered, its output being the event and then the sentinel.
SecondDrainCompletesSink ==
    [][\A t \in Threads : \A c \in Sinks :
          ( /\ Returns(t, "advance_consumers")
            /\ c \in Range(loc[t].registered)
            /\ c \in loc[t].active
            /\ loc[t].recorded = 1
            /\ handed[c] = <<1>>
            /\ loc[t].was_empty
            /\ loc[t].call_msec > c_expiry[c] )
          => ( /\ c_state'[c] = "COMPLETE"
               /\ c \notin Range(consumers')
               /\ EventThenSentinel(written'[c]) )]_vars

\* C6: a call of now() that starts after another has returned returns a
\* greater value, and no call returns a value another call has returned.
NowStrictlyIncreasing ==
    [][\A t \in Threads :
          (pc[t] = "now_store" /\ pc'[t] # "now_store")
          => (loc[t].t > loc[t].floor /\ loc[t].t # now_max)]_vars

\* C7: no thread asks for _consumer_mutex while it holds _event_mutex, both
\* are held only in advance_consumers where the meta-events are copied, and
\* no thread waits for a mutex held by itself or by a thread that waits
\* for it.
LockOrder ==
    /\ \A t \in Threads : event_mutex = t => ~RequestsConsumer(t)
    /\ \A t \in Threads :
          (event_mutex = t /\ consumer_mutex = t) => pc[t] = "advance_copy_meta"
    /\ \A t \in Threads :
          /\ WaitsFor(t) # t
          /\ WaitsFor(t) # NoThread => WaitsFor(WaitsFor(t)) # t

\* the main loop holds both mutexes while a producer waits for one and the
\* control thread for the other
BothHeldOthersWaiting ==
    /\ event_mutex = Main
    /\ consumer_mutex = Main
    /\ \E t \in Threads \ {Main} : RequestsEvent(t)
    /\ \E t \in Threads \ {Main} : RequestsConsumer(t)

\* C8: one sink is registered for the whole run and the producers have
\* recorded K events and are done before shutdown is called: when shutdown
\* returns the sink was handed each of the K events exactly once and wrote
\* one sentinel, K + 1 entries in all.
ShutdownDeliversAll ==
    [][\A t \in Threads : \A c \in Sinks :
          ( /\ Returns(t, "shutdown")
            /\ loc[t].registered = <<c>>
            /\ c \in loc[t].active
            /\ \A d \in Sinks \ {c} : c_expiry[d] = DISTANT_FUTURE
            /\ loc[t].quiet
            /\ loc[t].recorded >= 1
            /\ Recording = {}
            /\ loc[t].recorded = next_id - 1 )
          => ( /\ \A id \in 1..(next_id - 1) :
                     Cardinality({k \in 1..Len(handed'[c]) : handed'[c][k] = id}) = 1
               /\ Len(handed'[c]) = next_id - 1
               /\ Sentinels(written'[c]) = 1
               /\ Entries(written'[c]) = next_id )]_vars

\* C9: a call of add_event, add_event_with_args or set_counter that finds
\* _enabled false returns at once and leaves _events and _arg_lists as they
\* were.
RecordingPoints == {"add_event", "add_event_with_args", "set_counter"}

DisabledCallChangesNothing ==
    [][\A t \in Threads :
          (pc[t] \in RecordingPoints /\ ~enabled /\ pc'[t] # pc[t])
          => (pc'[t] = "idle" /\ events' = events /\ arg_lists' = arg_lists)]_vars

\* a recording call finds capture disabled after the only sink was removed
CallAfterCaptureDisabled ==
    /\ Quiescent
    /\ ~enabled
    /\ \E t \in Threads : pc[t] \in RecordingPoints
    /\ \E c \in Sinks : c_expiry[c] # DISTANT_FUTURE

\* C10: in every state in which capture is disabled the event buffer is
\* empty.
DisabledBufferEmpty == ~enabled => events = <<>>

\* C11: a sink receives the event strings in the order the events were
\* appended, within a drain and from one drain to the next; the event of a
\* Context is appended when its scope ends, so in the output of a sink no
\* Complete event comes before an event of the same thread whose timestamp
\* lies within its span: the event of an inner Context and a counter
\* recorded inside a scope precede the event of the scope.
Encloses(a, b) ==
    /\ Field(a, "ph") = Str(Complete)
    /\ Field(a, "tid") = Field(b, "tid")
    /\ Field(a, "ts").n < Field(b, "ts").n
    /\ Field(b, "ts").n <= Field(a, "ts").n + Field(a, "dur").n

DeliveredInAppendOrder ==
    \A c \in Sinks :
       /\ \A p, q \in 1..Len(handed[c]) : p < q => handed[c][p] < handed[c][q]
       /\ \A p, q \in 1..Len(written[c]) :
             (p < q /\ IsEvent(written[c][p]) /\ IsEvent(written[c][q]))
             => ~Encloses(written[c][p].json, written[c][q].json)

\* a sink wrote a counter, then the event of the inner scope it was recorded
\* in, then the event of the outer scope
NestedScopesDelivered ==
    \E c \in Sinks : \E p, q, r \in 1..Len(written[c]) :
       /\ p < q /\ q < r
       /\ IsEvent(written[c][p]) /\ IsEvent(written[c][q]) /\ IsEvent(written[c][r])
       /\ Field(written[c][p].json, "ph") = Str(Counter)
       /\ Field(written[c][q].json, "name") = Str("context_1")
       /\ Field(written[c][r].json, "name") = Str("context_0")
       /\ Encloses(written[c][q].json, written[c][p].json)
       /\ Encloses(written[c][r].json, written[c][q].json)

\* C12: once a Trace_to_file whose file was opened is COMPLETE and its
\* finish has returned, the stream is closed and holds the opener, then
\* every event string it was handed, each followed by the separator, then
\* the meta-events in the order they were recorded, each followed by the
\* separator, then one sentinel without a separator, then the closing of the
\* array and the object; and nothing is written to a closed stream.
InFinish(c) ==
    \E t \in Threads :
       /\ loc[t].ret = "advance_end_of_trace"
       /\ pc[t] \in {"now_load", "now_store", "advance_end_of_trace"}
       /\ loc[t].expired_consumers[loc[t].i + 1] = c

MetaEntries(stream) == SelectSeq(stream, IsMeta)

WellFormedFile(c) ==
    LET stream == written[c]
        n == Len(stream)
        metas == MetaEntries(stream)
    IN  /\ n >= 3
        /\ (n - 3) % 2 = 0
        /\ stream[1] = Opener
        /\ \A k \in 2..(n - 2) :
              IF k % 2 = 0 THEN IsEntry(stream[k]) /\ ~IsSentinel(stream[k])
              ELSE stream[k] = Separator
        /\ \A p, q \in 2..(n - 2) :
              (p < q /\ p % 2 = 0 /\ q % 2 = 0 /\ IsMeta(stream[p]))
              => IsMeta(stream[q])
        /\ Cardinality({k \in 2..(n - 2) : IsEvent(stream[k])}) = Len(handed[c])
        /\ Len(metas) <= Len(meta_events)
        /\ \A k \in 1..Len(metas) : metas[k] = Json(meta_events[k])
        /\ IsSentinel(stream[n - 1])
        /\ stream[n] = Closer

CompleteFileWellFormed ==
    /\ [](\A c \in Sinks \ run.unopened :
            (c_state[c] = "COMPLETE" /\ ~InFinish(c))
            => (~stream_open[c] /\ WellFormedFile(c)))
    /\ [][\A c \in Sinks :
            ~stream_open[c] => (written'[c] = written[c] /\ ~stream_open'[c])]_vars

\* a file is complete with an event and a meta-event in it, and events
\* were recorded since
FileCompleteThenMoreRecorded ==
    \E c \in Sinks \ run.unopened :
       /\ c_state[c] = "COMPLETE"
       /\ ~InFinish(c)
       /\ \E k \in 1..Len(written[c]) : IsEvent(written[c][k])
       /\ \E k \in 1..Len(written[c]) : IsMeta(written[c][k])
       /\ next_id - 1 > Len(handed[c])
       /\ enabled

\* the names of the fields of a JSON string, in the order written
Keys(j) == [k \in 1..Len(j) |-> j[k][1]]

\* thread t is in a drain that has converted its events to strings
Converted(t) ==
    /\ loc[t].events # <<>>
    /\ Len(loc[t].event_strings) = Len(loc[t].events)

\* C13: an event recorded by set_counter(name, count_name, count) is
\* written with phase C, the registered string of name as its name, no
\* "cat", no "dur", and an "args" object of one entry whose key is the
\* registered string of count_name and whose value is count.
IsCounterJson(j) ==
    /\ Keys(j) = <<"name", "ph", "ts", "pid", "tid", "args">>
    /\ Field(j, "name") = Str("count_0")
    /\ Field(j, "ph") = Str("C")
    /\ Field(j, "args") = Obj(<< <<"datum_0", Num(13)>> >>)

CounterSerialised ==
    /\ \A t \in Threads :
          Converted(t) =>
             \A k \in 1..Len(loc[t].events) :
                loc[t].events[k].ph = Counter
                => /\ IsCounterJson(loc[t].event_strings[k])
                   /\ Field(loc[t].event_strings[k], "ts") = Num(loc[t].events[k].ts)
    /\ \A c \in Sinks : \A k \in 1..Len(written[c]) :
          (IsEvent(written[c][k]) /\ Field(written[c][k].json, "ph") = Str("C"))
          => IsCounterJson(written[c][k].json)

\* a file holds a counter after an event with arguments, so the counter's
\* list was not the first of its drain
CounterWritten ==
    \E c \in Sinks : \E k \in 2..Len(written[c]) :
       /\ IsEvent(written[c][k])
       /\ Field(written[c][k].json, "ph") = Str("C")
       /\ \E p \in 1..(k - 1) :
             IsEvent(written[c][p]) /\ HasField(written[c][p].json, "args")

\* C14: the fields of an event string depend on the phase and the argument
\* index only: "dur" is there exactly for phase X, "cat" is missing exactly
\* for phase C, "args" is there exactly when the event has an argument
\* list, and name, ph, ts, tid and pid (always 1) are always there.
FieldsByPhase ==
    \A t \in Threads :
       Converted(t) =>
          \A k \in 1..Len(loc[t].events) :
             LET e == loc[t].events[k]
                 j == loc[t].event_strings[k]
             IN  /\ HasField(j, "dur") <=> e.ph = Complete
                 /\ ~HasField(j, "cat") <=> e.ph = Counter
                 /\ HasField(j, "args") <=> e.args_index # -1
                 /\ \A key \in {"name", "ph", "ts", "tid", "pid"} : HasField(j, key)
                 /\ Field(j, "pid") = Num(1)

\* a drain has converted a Complete event without arguments and another
\* event with arguments
CompleteAndArgsConverted ==
    \E t \in Threads :
       /\ Converted(t)
       /\ \E k \in 1..Len(loc[t].events) :
             loc[t].events[k].ph = Complete /\ loc[t].events[k].args_index = -1
       /\ \E k \in 1..Len(loc[t].events) :
             loc[t].events[k].ph # Complete /\ loc[t].events[k].args_index # -1

\* C15: no event whose phase is not one of B, E, C, M, X is ever delivered
\* to a sink.
SupportedPhases == {DurationBegin, DurationEnd, Counter, Metadata, Complete}

OnlySupportedPhasesDelivered ==
    \A c \in Sinks : \A k \in 1..Len(written[c]) :
       IsEntry(written[c][k])
       => \E ph \in SupportedPhases : Field(written[c][k].json, "ph") = Str(ph)

\* C16: a call of add_meta_event with a kind its form does not recognise
\* (the string form knows process_name, process_labels and thread_name,
\* the integer form process_sort_index and thread_sort_index) leaves the
\* list of meta-events as it was; a call with a recognised kind appends
\* one meta-event, of that kind; nothing else changes the list.
StringKinds == {"process_name", "process_labels", "thread_name"}
IntKinds == {"process_sort_index", "thread_sort_index"}

Recognised(op, type) ==
    \/ op = "add_meta_event" /\ type \in StringKinds
    \/ op = "add_meta_event_int" /\ type \in IntKinds

MetaReturns(t) == loc[t].op \in MetaCalls /\ pc[t] # "idle" /\ pc'[t] = "idle"

OnlyRecognisedKindsAppended ==
    [][/\ \A t \in Threads :
             MetaReturns(t) =>
                IF Recognised(loc[t].op, loc[t].ev.ph)
                THEN /\ Len(meta_events') = Len(meta_events) + 1
                     /\ SubSeq(meta_events', 1, Len(meta_events)) = meta_events
                     /\ Field(meta_events'[Len(meta_events')], "name")
                           = Str(loc[t].ev.ph)
                ELSE meta_events' = meta_events
       /\ meta_events' # meta_events => \E t \in Threads : MetaReturns(t)]_vars

\* a call with a kind its form does not recognise is under way, after a
\* meta-event was appended
UnknownKindCalled ==
    \E t \in Threads :
       /\ pc[t] \in {"add_meta_event", "add_meta_event_int"}
       /\ ~Recognised(loc[t].op, loc[t].ev.ph)
       /\ meta_events # <<>>

\* C17: the list of meta-events only grows at its end, and a sink that is
\* finished is handed every meta-event recorded so far, in the order they
\* were recorded, those recorded before it was registered and those already
\* handed to another sink included.
Finished(c) == finish_calls'[c] = finish_calls[c] + 1

EveryMetaEventAtFinish ==
    [][/\ Len(meta_events') >= Len(meta_events)
       /\ SubSeq(meta_events', 1, Len(meta_events)) = meta_events
       /\ \A c \in Sinks :
             (Finished(c) /\ stream_open[c])
             => /\ ~\E k \in 1..Len(written[c]) : IsMeta(written[c][k])
                /\ MetaEntries(written'[c])
                      = [k \in 1..Len(meta_events) |-> Json(meta_events[k])]]_vars

\* two files are complete, the second was finished by a later drain than
\* the first, and it holds the meta-event the first holds
MetaEventHandedAgain ==
    \E c, d \in Sinks :
       /\ c_state[c] = "COMPLETE" /\ ~stream_open[c] /\ written[c] # <<>>
       /\ c_state[d] = "COMPLETE" /\ ~stream_open[d] /\ written[d] # <<>>
       /\ Len(handed[c]) < Len(handed[d])
       /\ MetaEntries(written[c]) # <<>>
       /\ MetaEntries(written[d]) = MetaEntries(written[c])

\* C19: a Trace_to_file whose file could not be opened never writes
\* anything and makes no assertion fail; its state goes from ACTIVE to
\* EXPIRED to COMPLETE, and the drain that finds it expired leaves it
\* COMPLETE and not registered, as it does every sink.
UnopenedSinkHarmless ==
    /\ [](\A c \in run.unopened :
            /\ written[c] = <<>>
            /\ ~stream_open[c]
            /\ ~assert_failed
            /\ (Quiescent /\ c_state[c] # "ACTIVE")
               => (c_state[c] = "COMPLETE" /\ c \notin Range(consumers)))
    /\ [][\A c \in run.unopened :
            \/ c_state'[c] = c_state[c]
            \/ c_state[c] = "ACTIVE" /\ c_state'[c] = "EXPIRED"
            \/ c_state[c] = "EXPIRED" /\ c_state'[c] = "COMPLETE"]_vars

\* a sink whose file could not be opened was handed events and a
\* meta-event, and is complete and not registered
UnopenedSinkComplete ==
    \E c \in run.unopened :
       /\ Quiescent
       /\ c_state[c] = "COMPLETE"
       /\ c \notin Range(consumers)
       /\ handed[c] # <<>>
       /\ meta_events # <<>>
       /\ finish_calls[c] = 1

\* C18: when the consume_events of one sink fails during a drain, every
\* other sink registered for that drain is still handed the batch: the
\* handing over only ends after every registered sink has got the batch.
EndsWith(s, tail) ==
    /\ Len(s) >= Len(tail)
    /\ SubSeq(s, Len(s) - Len(tail) + 1, Len(s)) = tail

FailingSinkIsolated ==
    [][\A t \in Threads :
          ( /\ pc[t] = "advance_loop"
            /\ pc'[t] # "advance_loop"
            /\ loc[t].ids # <<>>
            /\ \E c \in Range(loc[t].registered) : c \in run.throwing )
          => \A c \in Range(loc[t].registered) \ run.throwing :
                EndsWith(handed'[c], loc[t].ids)]_vars

\* C20: when add_consumer(c), called at time t with a sink that is not
\* null, returns, the expiry of c is t + min(lifetime, 10000 ms) and c is
\* ACTIVE, also when c was registered and completed before.
AddConsumerRestartsSink ==
    [][\A t \in Threads :
          Returns(t, "add_consumer") =>
             LET c == loc[t].consumer
             IN  /\ c_expiry'[c] = loc[t].call_msec
                       + Min(SinkLifetime(c), MAX_TRACE_CONSUMER_LIFETIME)
                 /\ c_state'[c] = "ACTIVE"]_vars

\* C21: a sink that was registered once and is COMPLETE is not in
\* _consumers, the only sinks a drain calls, and once its finish has
\* returned no advance_consumers or shutdown hands it events, changes its
\* state or finishes it.
NoCallAfterComplete ==
    /\ [](\A c \in Sinks : c_state[c] = "COMPLETE" => c \notin Range(consumers))
    /\ [][\A c \in Sinks :
            (c_state[c] = "COMPLETE" /\ ~InFinish(c))
            => /\ handed'[c] = handed[c]
               /\ finish_calls'[c] = finish_calls[c]
               /\ c_state'[c] = c_state[c]
               /\ written'[c] = written[c]]_vars

\* a drain hands a batch to a registered sink after another sink was
\* completed
DrainAfterComplete ==
    \E c \in Sinks : \E t \in Threads :
       /\ c_state[c] = "COMPLETE"
       /\ finish_calls[c] = 1
       /\ pc[t] = "advance_loop"
       /\ loc[t].ids # <<>>
       /\ loc[t].i < Len(consumers)

\* C22: an event recorded under a name id or a category id that
\* register_string was never called with is not serialised and delivered:
\* no sink is written an event whose name or category is the empty string of
\* an unregistered slot.
UnregisteredIdNotDelivered ==
    \A c \in Sinks : \A k \in 1..Len(written[c]) :
       IsEvent(written[c][k])
       => \A key \in {"name", "cat"} :
             HasField(written[c][k].json, key)
             => Field(written[c][k].json, key)
                   # Str(registered_strings[UNREGISTERED])

\* C23: forcing the early expiry of a registered ACTIVE sink changes that
\* sink's expiry and nothing else: its state, the registered set, the
\* enabled flag and the buffers are as before; and while no drain has
\* processed it since, the sink stays ACTIVE and registered and capture
\* stays enabled, so that recording goes on appending.
StoppedEarly(c) == c_expiry[c] = update_expiry(c_lifetime[c], 0)

StopEarlyOnlyExpiry ==
    /\ [][\A c \in Sinks :
            (c_expiry'[c] # c_expiry[c] /\ StoppedEarly(c)' /\ pc' = pc)
            => /\ \A d \in Sinks \ {c} : c_expiry'[d] = c_expiry[d]
               /\ UNCHANGED <<traceVars, last_t, mutexVars, c_lifetime, c_state,
                              stream_open, written, handed, finish_calls,
                              assert_failed, aborted, clockVars, pc, loc,
                              now_max, next_id, countVars>>]_vars
    /\ [][\A c \in Sinks :
            (/\ StoppedEarly(c) /\ c_state[c] = "ACTIVE"
             /\ c \in Range(consumers)
             /\ loc[Main].op \notin SinkCalls /\ loc'[Main].op \notin SinkCalls)
            => /\ c_state'[c] = "ACTIVE"
               /\ c \in Range(consumers')
               /\ enabled /\ enabled'
               /\ StoppedEarly(c)'
               /\ pc[Main] = "add_event_push"
                  => Len(events') = Len(events) + 1]_vars

\* add_event is about to append for a registered ACTIVE sink that was
\* stopped early
RecordedAfterStopEarly ==
    \E c \in Sinks :
       /\ StoppedEarly(c) /\ c_state[c] = "ACTIVE" /\ c \in Range(consumers)
       /\ pc[Main] = "add_event_push"

\* C24: a recording call neither holds nor asks for _consumer_mutex, and
\* while advance_consumers is at the loop that calls consume_events it does
\* not hold _event_mutex: the mutex is free or held by a recording call, so
\* a producer's call is never kept waiting by the delivery.
RecordingOps == {"add_event", "add_event_with_args", "set_counter",
                 "add_meta_event", "add_meta_event_int"}

DeliveryDoesNotBlockRecording ==
    /\ \A t \in Threads :
          loc[t].op \in RecordingOps
          => (consumer_mutex # t /\ ~RequestsConsumer(t))
    /\ \A t \in Threads :
          pc[t] = "advance_loop"
          => /\ event_mutex # t
             /\ event_mutex # NoThread => loc[event_mutex].op \in RecordingOps

\* the drain is at the delivery of a batch, not yet made, and a recording
\* call that began after the batch was taken has returned
RecordedDuringDelivery ==
    /\ pc[Main] = "advance_loop"
    /\ loc[Main].i = 0
    /\ consumers # <<>>
    /\ events # <<>>
    /\ pc[Producer] = "idle"

\* C25: add_meta_event called while capture is disabled and no sink is
\* registered leaves the meta-event list as it was.
DisabledMetaEventAppendsNothing ==
    [][\A t \in Threads :
          (/\ loc[t].op \in MetaCalls
           /\ ~enabled /\ consumers = <<>>
           /\ Quiescent)
          => meta_events' = meta_events]_vars

\* C25 as the code has it: add_meta_event does not read _enabled.  A call
\* with a recognised kind that returns while capture is disabled and no sink
\* is registered has appended one meta-event, and left the enabled flag, the
\* registered set and the event buffer as they were.
DisabledMetaEventAppended ==
    [][\A t \in Threads :
          (/\ MetaReturns(t)
           /\ Recognised(loc[t].op, loc[t].ev.ph)
           /\ ~enabled /\ consumers = <<>>
           /\ Quiescent)
          => /\ Len(meta_events') = Len(meta_events) + 1
             /\ UNCHANGED <<enabled, consumers, events, arg_lists>>]_vars

\* a meta-event is held although no sink was ever registered
MetaEventBeforeAnySink ==
    /\ meta_events # <<>>
    /\ ~enabled
    /\ consumers = <<>>
    /\ \A c \in Sinks : c_expiry[c] = DISTANT_FUTURE
    /\ \A t \in Threads : pc[t] = "idle"

\* C26: the destructor of a Context records one event when capture is
\* enabled at the end of its scope, and none otherwise.  The event has phase
\* Complete, the ts the constructor took from now(), the dur now() - ts of
\* the scope's end, and the arguments add_arg was given, in the order of
\* the calls: no argument list when there was none, else one new list.
ContextEnds(t) == loc[t].context # NoContext /\ pc[t] # "idle" /\ pc'[t] = "idle"

RegisteredSinkCompletes ==
    \A c \in Sinks :
       (c \in Range(consumers) /\ msec > c_expiry[c])
          ~> (c_state[c] = "COMPLETE")

\* C28: when the loop of a drain is over, consume_events was called exactly
\* once, with the batch of the drain, on every sink that was registered
\* (once each) when the loop began, and on no other, whichever of them
\* expired in the loop.
Count(s, x) == Cardinality({k \in 1..Len(s) : s[k] = x})
LoopOver(t) == pc[t] = "advance_loop" /\ loc[t].i >= Len(consumers)

LoopVisitsEachSinkOnce ==
    \A t \in Threads :
       (LoopOver(t) /\ \A c \in Sinks : Count(loc[t].registered, c) <= 1)
       => \A c \in Sinks :
             /\ Count(loc[t].visited, c) = Count(loc[t].registered, c)
             /\ c \in Range(loc[t].registered) => EndsWith(handed[c], loc[t].ids)

\* the first of two registered sinks expired in the loop and the second,
\* moved into its place, was visited after it and stays registered
MovedSinkVisited ==
    \E t \in Threads :
       /\ LoopOver(t)
       /\ loc[t].registered = <<"c1", "c2">>
       /\ loc[t].expired_consumers = <<"c1">>
       /\ loc[t].visited = <<"c1", "c2">>
       /\ consumers = <<"c2">>

\* C29: finish is called on a sink only in the part of a drain that comes
\* after its loop, when the loop has called consume_events on every
\* registered sink; the sink finished is one the loop of this drain called
\* consume_events on, found expired and took out of _consumers.
AfterLoop == {"advance_lock_meta", "advance_copy_meta", "advance_finish",
              "advance_end_of_trace"}

FinishAfterWholeLoop ==
    /\ [](\A t \in Threads :
            (loc[t].op = "advance_consumers" /\ loc[t].expired_consumers # <<>>)
            => /\ \A c \in Range(loc[t].expired_consumers) :
                     c \in Range(loc[t].visited)
               /\ pc[t] \in AfterLoop
                  => /\ Len(loc[t].visited) = Len(loc[t].registered)
                     /\ \A c \in Range(loc[t].expired_consumers) :
                           c \notin Range(consumers))
    /\ [][\A c \in Sinks :
            finish_calls'[c] # finish_calls[c]
            => \E t \in Threads :
                  /\ pc[t] = "advance_finish"
                  /\ c = loc[t].expired_consumers[loc[t].i + 1]
                  /\ Count(loc[t].visited, c) >= 1
                  /\ handed'[c] = handed[c]
                  /\ consumers' = consumers]_vars

\* the first of two registered sinks is finished, after the loop has handed
\* the batch to the second, which stays registered
FinishedAfterOtherSinkServed ==
    \E t \in Threads :
       /\ pc[t] = "advance_finish"
       /\ loc[t].i = 1
       /\ loc[t].registered = <<"c1", "c2">>
       /\ loc[t].expired_consumers = <<"c1">>
       /\ finish_calls["c1"] = 1
       /\ EndsWith(handed["c2"], loc[t].ids)
       /\ consumers = <<"c2">>

\* C30: remove_consumer(c) takes every occurrence of c out of _consumers
\* and keeps every other sink as often as it was registered; it calls
\* neither consume_events nor finish, on c or on another sink, and leaves
\* every sink's state and expiry as they were; when it returns capture is
\* disabled if _consumers is empty and as it was before otherwise.
Removing(t) == loc[t].op = "remove_consumer"

RemoveConsumerRemovesOnly ==
    [][\A t \in Threads :
          Removing(t)
          => /\ UNCHANGED <<handed, finish_calls, written, c_state, c_expiry,
                            c_lifetime, stream_open, events, arg_lists,
                            meta_events>>
             /\ pc[t] # "remove_consumer_loop" => consumers' = consumers
             /\ pc[t] # "remove_consumer_disable" => enabled' = enabled
             /\ pc[t] = "remove_consumer_loop"
                => \A d \in Sinks :
                      Count(consumers', d) =
                         IF d = loc[t].consumer THEN 0 ELSE Count(consumers, d)
             /\ pc[t] = "remove_consumer_disable"
                => /\ Count(consumers, loc[t].consumer) = 0
                   /\ enabled' = IF consumers = <<>> THEN FALSE ELSE enabled]_vars

\* a sink registered twice, with another between, was removed: the other
\* is still registered and capture is still enabled
RemovedTwiceRegistered ==
    \E t \in Threads :
       /\ pc[t] = "remove_consumer_disable"
       /\ loc[t].consumer = "c1"
       /\ loc[t].registered = <<"c1", "c2", "c1">>
       /\ consumers = <<"c2">>
       /\ enabled

Ids(es) == {es[k].id : k \in 1..Len(es)}
Gone(id) == id \notin Ids(events) /\ \A t \in Threads : id \notin Ids(loc[t].events)

DrainWithoutSinkDropsEvents ==
    [][/\ \A t \in Threads :
             (/\ loc[t].op = "advance_consumers"
              /\ ~loc[t].was_empty /\ loc[t].registered = <<>>)
             => /\ UNCHANGED <<handed, written, c_state, finish_calls>>
                /\ pc'[t] = "idle" => (events' = <<>> /\ arg_lists' = <<>>)
       /\ \A c \in Sinks : \A id \in 1..(next_id - 1) :
             (Gone(id) /\ id \notin Range(handed[c]))
             => id \notin Range(handed'[c])]_vars

\* the first event was dropped by a drain without a sink; a sink registered later was handed the second event and not the
\* first
LaterSinkWithoutDroppedEvent ==
    \E c \in Sinks :
       /\ handed[c] = <<2>>
       /\ \A d \in Sinks : 1 \notin Range(handed[d])
       /\ Gone(1)
       /\ since[c] = 2
       /\ pc[Main] = "idle"

\* C34: a sink is handed only events appended after it was registered: no
\* event that was in the buffer before add_consumer pushed the sink, left
\* there when the last sink before it was removed or retired, is handed to it.
HandedOnlyLaterEvents ==
    [][\A c \in Sinks :
          \A k \in (Len(handed[c]) + 1)..Len(handed'[c]) :
             handed'[c][k] >= since[c]]_vars

\* C33: when a drain takes a sink out of _consumers to finish it, after
\* which the sink gets no consume_events any more, the sink has been handed
\* every event appended to the buffer since it was registered, those
\* appended after this drain swapped the buffer out included.
DeliveredBeforeFinish ==
    [][\A c \in Sinks :
          (/\ c \in Range(consumers) /\ c \notin Range(consumers')
           /\ \E t \in Threads : pc[t] = "advance_loop")
          => \A id \in since[c]..(next_id - 1) : id \in Range(handed'[c])]_vars

\* C35: in the buffer, and in the batch of every drain, an event's argument
\* index is -1 or the index of a list of the table: the events with
\* arguments have the indices 0, 1, 2, ... in their order and the table has
\* as many lists as there are such events; and the list a recording call
\* stores at the index of its event is the one the call was given.
WithArgs(evs) == SelectSeq(evs, LAMBDA e : e.args_index # -1)

Paired(evs, lists) ==
    /\ \A k \in 1..Len(evs) :
          evs[k].args_index = -1
          \/ (0 <= evs[k].args_index /\ evs[k].args_index < Len(lists))
    /\ Len(WithArgs(evs)) = Len(lists)
    /\ \A j \in 1..Len(WithArgs(evs)) : WithArgs(evs)[j].args_index = j - 1

ArgumentIndexValid ==
    /\ [](/\ Paired(events, arg_lists)
          /\ \A t \in Threads : Paired(loc[t].events, loc[t].arg_lists))
    /\ [][\A t \in Threads :
            (pc[t] \in {"add_event_with_args_push", "set_counter_push"}
             /\ pc'[t] = "idle")
            => LET e == events'[Len(events')]
               IN  /\ Len(events') = Len(events) + 1
                   /\ arg_lists'[e.args_index + 1] = loc[t].ev.args
                   /\ SubSeq(arg_lists', 1, Len(arg_lists)) = arg_lists]_vars

\* an event with arguments is appended, with index 0 again, while a drain
\* converts a batch that holds an event with arguments
RecordedWithArgsDuringDrain ==
    /\ pc[Main] = "advance_lock_consumers"
    /\ WithArgs(loc[Main].events) # <<>>
    /\ WithArgs(events) # <<>>
    /\ events[1].args_index = 0

\* C36: the conversion of a batch reads only elements of the argument list
\* of each event recorded with arguments, the empty list included: the
\* bound of its loop is never above the size of the list.
ArgsReadInBounds ==
    \A t \in Threads :
       \A k \in 1..Len(loc[t].events) :
          loc[t].events[k].args_index # -1
          => InBounds(loc[t].arg_lists[loc[t].events[k].args_index + 1])

\* C37: now() never returns 0, whatever the interleaving of its callers: the
\* timestamp a Context takes in its constructor is never 0, add_event and
\* add_event_with_args never replace it, and the event the Context records
\* carries it.
FromContext(t) ==
    /\ loc[t].context # NoContext
    /\ pc[t] \in {"add_event_push", "add_event_with_args_push"}
    /\ pc'[t] = "idle"

NowNeverZero ==
    /\ [](\A t \in Threads :
            /\ pc[t] = "now_store" => loc[t].t # 0
            /\ \A d \in 1..Len(scopes[t]) : scopes[t][d].ts # 0
            /\ loc[t].context # NoContext
               => loc[t].context.ts # 0 /\ pc[t] # "now_load"
                  /\ pc[t] # "now_store")
    /\ [][\A t \in Threads :
            FromContext(t)
            => /\ Len(events') = Len(events) + 1
               /\ events'[Len(events')].ts = loc[t].context.ts]_vars

\* two producers read _last_t = 0 at clock 0 at the same time, and the
\* scope of one of them records its event
TwoScopesAtClockZero ==
    /\ \E t \in Producers :
          /\ loc[t].context # NoContext /\ loc[t].context.ts = 1
          /\ pc[t] = "add_event_with_args_push"
    /\ \E t \in Producers : scopes[t] # <<>> /\ scopes[t][1].ts = 1

\* C38: with TRACE_START, TRACE_STOP_EARLY, TRACE_MAINLOOP and TRACE_SHUTDOWN
\* used in any order, no sink that has been destroyed is in the registered
\* set: a sink is destroyed only after it has left _consumers.
RegisteredSinksAlive == Range(consumers) \cap destroyed = {}

\* C39: in the Consumer that can be started again, stop() on an ACTIVE sink
\* sets its expiry to 0 and moves it to EXPIRED (is_active() false,
\* is_expired() true) and changes nothing on a sink that is not ACTIVE;
\* start() on a sink that is not ACTIVE makes it ACTIVE with expiry now plus
\* the clamped lifetime, and changes nothing on a sink that is ACTIVE.
StartAndStopFlipState ==
    [][\A t \in Threads :
          LET c == loc[t].consumer
          IN  /\ (pc[t] = "consumer_stop" /\ pc'[t] = "idle")
                 => IF is_active(c_state[c])
                    THEN /\ c_expiry'[c] = 0
                         /\ ~is_active(c_state'[c])
                         /\ is_expired(c_state'[c])
                    ELSE UNCHANGED <<c_state, c_expiry, c_lifetime>>
              /\ (pc[t] = "consumer_start" /\ pc'[t] = "idle")
                 => IF ~is_active(c_state[c])
                    THEN /\ is_active(c_state'[c])
                         /\ c_lifetime'[c] <= MAX_TRACE_CONSUMER_LIFETIME
                         /\ c_expiry'[c] = msec + c_lifetime'[c]
                    ELSE UNCHANGED <<c_state, c_expiry, c_lifetime>>]_vars

====
